---- MODULE Spec2Model ----
(***************************************************************************)
(* Academic-year scoped enrollment and promotion engine of the school      *)
(* administration backend: StudentsService (create, promote, promoteBulk,  *)
(* reAdmit, reAdmitBulk), the Enrollment ledger with its unique indexes,   *)
(* the Student snapshot, the roll-number generator and the academic-year   *)
(* directory.  Requests run concurrently: every request is a sequence of   *)
(* database round trips, and the round trips of different requests         *)
(* interleave.  PaymentsService (createOrder, verifyPayment, handleWebhook) *)
(* and OtpService (create, check, verify) are modelled the same way.       *)
(***************************************************************************)
EXTENDS Integers, Sequences, FiniteSets, TLC

VARIABLES
    years,      \* AcademicYear collection: id -> [isActive, isCurrent]
    students,   \* Student collection (snapshot fields): id -> document
    ledger,     \* Enrollment collection: set of documents
    reqs,       \* requests in flight, one per request slot
    returned,   \* the request that returned last, with its outcome
    calls,      \* number of requests started so far
    probe,      \* the last direct application of a helper: arguments and result
    payments,   \* Payment collection: sequence of documents, _id = position
    captured,   \* Razorpay: the orders a payment was captured for
    payReqs,    \* payment requests in flight, one per request slot
    otps,       \* otp_management collection: the document of the identifier, if any
    otpReqs,    \* OTP requests in flight, one per request slot
    now,        \* Date.now(), in milliseconds
    wrongCodes  \* incorrect codes answered so far, and when the fifth was answered

paymentVars == <<payments, captured, payReqs>>
otpVars == <<otps, otpReqs, now, wrongCodes>>

vars == <<years, students, ledger, reqs, returned, calls, probe, paymentVars, otpVars>>

----------------------------------------------------------------------------
(* Bounds of the model *)

MaxCalls == 3          \* requests started in one behaviour

----------------------------------------------------------------------------
(* Optional values: an absent field (undefined) is the empty sequence *)

Nothing == <<>>
Some(v) == <<v>>
IsSome(o) == Len(o) > 0
Get(o) == o[1]

----------------------------------------------------------------------------
(* Catalogs: the documents the other collections hold *)

YearIds == {"y1", "y2", "y3"}
ClassIds == {"c1", "c2"}
SectionIds == {"c1a", "c1b", "c2a"}
StudentSeq == <<"s1", "s2">>
StudentIds == {StudentSeq[i] : i \in 1..Len(StudentSeq)}
ReqIds == {"r1", "r2"}

\* AcademicYear documents as AcademicYearService.create stores them: name,
\* startDate, endDate (non-overlapping ranges, endDate > startDate).  The
\* schema defines neither `order` nor `label`, so a stored document has none.
YearStart == [y \in YearIds |-> CASE y = "y1" -> 10 [] y = "y2" -> 20 [] y = "y3" -> 30]
YearEnd == [y \in YearIds |-> YearStart[y] + 9]

\* names "2024-25", "2025-26", "2026-27" (the pattern the DTO accepts and
\* nameFromDates computes), one character per element
YearName == [y \in YearIds |->
    CASE y = "y1" -> <<"2", "0", "2", "4", "-", "2", "5">>
      [] y = "y2" -> <<"2", "0", "2", "5", "-", "2", "6">>
      [] y = "y3" -> <<"2", "0", "2", "6", "-", "2", "7">>]

AcademicYearDoc(y) ==
    [_id |-> y, name |-> YearName[y], order |-> Nothing, label |-> Nothing,
     startDate |-> Some(YearStart[y]), endDate |-> Some(YearEnd[y])]

\* Class documents: name (stored lower-cased, trimmed) and order
ClassDoc == [c \in ClassIds |->
    IF c = "c1" THEN [name |-> "1", order |-> Some(1)]
                ELSE [name |-> "2", order |-> Some(2)]]

\* Section documents: name (stored lower-cased, trimmed) and classId
SectionDoc == [s \in SectionIds |->
    CASE s = "c1a" -> [name |-> "a", classId |-> "c1"]
      [] s = "c1b" -> [name |-> "b", classId |-> "c1"]
      [] s = "c2a" -> [name |-> "a", classId |-> "c2"]]

\* String.prototype.toUpperCase / toLowerCase / trim on the names that occur
ToUpperCase(s) == CASE s = "a" -> "A" [] s = "b" -> "B" [] s = " a " -> " A " [] OTHER -> s
ToLowerCase(s) == CASE s = "A" -> "a" [] s = "B" -> "b" [] OTHER -> s
Trim(s) == CASE s = " A " -> "A" [] s = " a " -> "a" [] OTHER -> s

----------------------------------------------------------------------------
(* Roll numbers: "<CLASS>-<SECTION>-<NNN>", kept as the prefix parts and   *)
(* the decimal digits of the counter, so that the string order of the      *)
(* database sort and the number parsed back are both what the code sees    *)

RECURSIVE DigitsOf(_)
DigitsOf(n) == IF n < 10 THEN <<n>> ELSE Append(DigitsOf(n \div 10), n % 10)

RECURSIVE PadStart(_, _)
PadStart(d, width) == IF Len(d) >= width THEN d ELSE PadStart(<<0>> \o d, width)

RECURSIVE ParseInt(_)
ParseInt(d) == IF Len(d) = 0 THEN 0
               ELSE 10 * ParseInt(SubSeq(d, 1, Len(d) - 1)) + d[Len(d)]

\* string comparison of two digit strings (code-unit order, shorter prefix first)
RECURSIVE DigitsLess(_, _)
DigitsLess(a, b) ==
    IF Len(b) = 0 THEN FALSE
    ELSE IF Len(a) = 0 THEN TRUE
    ELSE IF a[1] # b[1] THEN a[1] < b[1]
    ELSE DigitsLess(Tail(a), Tail(b))

PadWidth == 3

RollPrefix(className, sectionName) ==
    <<Trim(ToUpperCase(className)), Trim(ToUpperCase(sectionName))>>

generateRollNumber(enrollments, className, sectionName, academicYearId) ==
    LET rollPrefix == RollPrefix(className, sectionName)
        matching == {e.rollNumber : e \in {x \in enrollments :
                        /\ x.academicYearId = academicYearId
                        /\ x.rollNumber.prefix = rollPrefix}}
        \* findOne(...).sort({ rollNumber: -1 }): greatest in string order
        latest == CHOOSE x \in matching :
                        \A y \in matching : ~DigitsLess(x.digits, y.digits)
        nextNumber == IF matching = {} THEN 1 ELSE ParseInt(latest.digits) + 1
    IN  [prefix |-> rollPrefix, digits |-> PadStart(DigitsOf(nextNumber), PadWidth)]

----------------------------------------------------------------------------
(* Unique indexes *)

\* Variant: the ledger without its (studentId, academicYearId) index
EnrollmentIndexOk_RollOnly(enrollments, doc) ==
    \A e \in enrollments :
        ~(e.academicYearId = doc.academicYearId /\ e.rollNumber = doc.rollNumber)

\* EnrollmentSchema.index({studentId, academicYearId}, unique) and
\* EnrollmentSchema.index({academicYearId, rollNumber}, unique)
EnrollmentIndexOk(enrollments, doc) ==
    /\ \A e \in enrollments :
          ~(e.studentId = doc.studentId /\ e.academicYearId = doc.academicYearId)
    /\ \A e \in enrollments :
          ~(e.academicYearId = doc.academicYearId /\ e.rollNumber = doc.rollNumber)

\* StudentSchema.index({academicYearId, rollNumber}, unique): would the
\* student document `id` holding (academicYearId, rollNumber) be unique
StudentIndexOk(studs, id, academicYearId, rollNumber) ==
    \A o \in DOMAIN studs \ {id} :
        ~(studs[o].academicYearId = academicYearId /\ studs[o].rollNumber = rollNumber)

----------------------------------------------------------------------------
(* Academic-year rules *)

\* Variant: the fallback sorted by startDate ascending
getCurrent_EarliestStart(yrs) ==
    LET flagged == {y \in YearIds : yrs[y].isCurrent}
        activeYears == {y \in YearIds : yrs[y].isActive}
    IN  IF flagged # {} THEN Some(CHOOSE y \in flagged : TRUE)
        ELSE IF activeYears = {} THEN Nothing
        ELSE Some(CHOOSE y \in activeYears :
                    \A z \in activeYears : YearStart[y] <= YearStart[z])

\* AcademicYearService.getCurrent / the lookup of assertIsCurrentAcademicYear:
\* the record flagged isCurrent, else the active record with the latest
\* startDate, else nothing
getCurrent(yrs) ==
    LET flagged == {y \in YearIds : yrs[y].isCurrent}
        activeYears == {y \in YearIds : yrs[y].isActive}
    IN  IF flagged # {} THEN Some(CHOOSE y \in flagged : TRUE)
        ELSE IF activeYears = {} THEN Nothing
        ELSE Some(CHOOSE y \in activeYears :
                    \A z \in activeYears : YearStart[z] <= YearStart[y])

\* Variant: the gate open when no current year can be resolved
assertIsCurrentAcademicYear_OpenWhenUnset(yrs, yearId) ==
    LET current == getCurrent(yrs)
    IN  IF ~IsSome(current) THEN "ok"
        ELSE IF Get(current) # yearId THEN "NotCurrentYear"
        ELSE "ok"

assertIsCurrentAcademicYear(yrs, yearId) ==
    LET current == getCurrent(yrs)
    IN  IF ~IsSome(current) THEN "NoCurrentYear"
        ELSE IF Get(current) # yearId THEN "NotCurrentYear"
        ELSE "ok"

\* A label is a sequence of one-character strings
DigitChars == <<"0", "1", "2", "3", "4", "5", "6", "7", "8", "9">>
IsDigitChar(ch) == \E i \in 1..10 : DigitChars[i] = ch
DigitValue(ch) == (CHOOSE i \in 1..10 : DigitChars[i] = ch) - 1
IsSpaceChar(ch) == ch = " "

\* /^(\d{4})\s*-\s*(\d{4})$/ on String(label || ''), then parseInt of both groups
parseAYLabel(label) ==
    IF ~IsSome(label) THEN Nothing
    ELSE LET s == Get(label)
             n == Len(s)
             mid == SubSeq(s, 5, n - 4)
             dashes == {i \in 1..Len(mid) : mid[i] = "-"}
         IN  IF /\ n >= 9
                /\ \A i \in 1..4 : IsDigitChar(s[i])
                /\ \A i \in (n - 3)..n : IsDigitChar(s[i])
                /\ Cardinality(dashes) = 1
                /\ \A i \in 1..Len(mid) : mid[i] = "-" \/ IsSpaceChar(mid[i])
             THEN Some(<<ParseInt([i \in 1..4 |-> DigitValue(s[i])]),
                         ParseInt([i \in 1..4 |-> DigitValue(s[n - 4 + i])])>>)
             ELSE Nothing

\* Variant: the order rule accepting any later order
nextAcademicYearRule_AnyLaterOrder(from, to) ==
    IF IsSome(from.order) /\ IsSome(to.order)
    THEN IF Get(to.order) <= Get(from.order) THEN "NotImmediateNext" ELSE "ok"
    ELSE LET pf == parseAYLabel(from.label)
             pt == parseAYLabel(to.label)
         IN  IF IsSome(pf) /\ IsSome(pt)
             THEN IF Get(pt)[1] = Get(pf)[1] + 1 /\ Get(pt)[2] = Get(pf)[2] + 1
                  THEN "ok" ELSE "NotImmediateNext"
             ELSE IF /\ IsSome(from.endDate) /\ IsSome(to.startDate)
                     /\ Get(to.startDate) > Get(from.endDate)
                  THEN "ok"
                  ELSE "CannotVerifySequence"

\* The rules of assertNextAcademicYear on the two fetched documents
nextAcademicYearRule(from, to) ==
    IF IsSome(from.order) /\ IsSome(to.order)
    THEN IF Get(to.order) # Get(from.order) + 1 THEN "NotImmediateNext" ELSE "ok"
    ELSE LET pf == parseAYLabel(from.label)
             pt == parseAYLabel(to.label)
         IN  IF IsSome(pf) /\ IsSome(pt)
             THEN IF Get(pt)[1] = Get(pf)[1] + 1 /\ Get(pt)[2] = Get(pf)[2] + 1
                  THEN "ok" ELSE "NotImmediateNext"
             ELSE IF /\ IsSome(from.endDate) /\ IsSome(to.startDate)
                     /\ Get(to.startDate) > Get(from.endDate)
                  THEN "ok"
                  ELSE "CannotVerifySequence"

\* Variant: without the same-year rejection
assertNextAcademicYear_NoSameYearCheck(fromId, toId) ==
    IF fromId \notin YearIds \/ toId \notin YearIds THEN "AcademicYearNotFound"
    ELSE nextAcademicYearRule(AcademicYearDoc(fromId), AcademicYearDoc(toId))

assertNextAcademicYear(fromId, toId) ==
    IF fromId = toId THEN "SameYear"
    ELSE IF fromId \notin YearIds \/ toId \notin YearIds THEN "AcademicYearNotFound"
    ELSE nextAcademicYearRule(AcademicYearDoc(fromId), AcademicYearDoc(toId))

----------------------------------------------------------------------------
(* Errors a request can end with *)

\* BadRequestException thrown by a business rule
ValidationErrors ==
    {"NoCurrentYear", "NotCurrentYear", "SameYear", "NotImmediateNext",
     "CannotVerifySequence", "AcademicYearNotFound", "CannotInferNextClass",
     "NoNextClass", "UnmappedSection", "StudentIdsRequired",
     "NoValidStudents", "ClassNotFound", "SectionNotFound"}
\* BadRequestException reporting a uniqueness conflict
ConflictErrors == {"AlreadyEnrolled", "RollNumberExists", "EmailExists", "DuplicateKeyError"}
\* NotFoundException
NotFoundErrors == {"StudentNotFound"}
\* errors that are no HttpException: the exception filter answers 500
InternalErrors == {"E11000", "TransactionAborted"}

\* StudentsService.handleDupKey on an error with code 11000 and the given
\* keyPattern fields
handleDupKey(fields) ==
    IF "email" \in fields THEN "EmailExists"
    ELSE IF "rollNumber" \in fields THEN "RollNumberExists"
    ELSE "DuplicateKeyError"

----------------------------------------------------------------------------
(* Requests *)

IdleReq ==
    [op |-> "none", pc |-> "idle", result |-> "",
     studentId |-> "", studentIds |-> {}, classId |-> "", sectionId |-> "",
     academicYearId |-> "", fromAY |-> "", fromClassId |-> "",
     fromSectionId |-> "", loaded |-> {}, rollNumber |-> Nothing,
     patch |-> Nothing,
     toUpdate |-> [classId |-> Nothing, sectionId |-> Nothing,
                   academicYearId |-> Nothing, rollNumber |-> Nothing],
     detail |-> "", successful |-> 0, failed |-> 0]

\* a new request takes the first slot that holds no request in flight
Free(r) == reqs[r].pc = "idle"
CanStart(r) ==
    /\ calls < MaxCalls
    /\ Free(r)
    /\ (r = "r2" => ~Free("r1"))

Done(q, outcome) == [q EXCEPT !.pc = "done", !.result = outcome]

\* what is kept of a finished request: the call and its outcome
Response(q) ==
    [op |-> q.op, result |-> q.result, studentId |-> q.studentId,
     academicYearId |-> q.academicYearId, fromAY |-> q.fromAY,
     detail |-> q.detail, successful |-> q.successful, failed |-> q.failed]

NoResponse == Response(IdleReq)

\* a request either goes on to its next round trip or returns
Settle(r, q) ==
    /\ IF q.pc = "done"
       THEN /\ reqs' = [reqs EXCEPT ![r] = IdleReq]
            /\ returned' = Response(q)
       ELSE /\ reqs' = [reqs EXCEPT ![r] = q]
            /\ UNCHANGED returned
    /\ UNCHANGED <<probe, paymentVars, otpVars>>

\* Variant: the lookup with its two ids swapped
HasEnrollment_SwappedIds(enrollments, studentId, academicYearId) ==
    \E e \in enrollments : e.studentId = academicYearId /\ e.academicYearId = studentId

HasEnrollment(enrollments, studentId, academicYearId) ==
    \E e \in enrollments : e.studentId = studentId /\ e.academicYearId = academicYearId

EnrollmentOf(enrollments, studentId, academicYearId) ==
    CHOOSE e \in enrollments : e.studentId = studentId /\ e.academicYearId = academicYearId

\* the loaded Student document, with its _id
Loaded(id) ==
    [_id |-> id, classId |-> students[id].classId, sectionId |-> students[id].sectionId,
     academicYearId |-> students[id].academicYearId, rollNumber |-> students[id].rollNumber]

\* document.save(): $set of the paths whose assigned value differs from the
\* value the document was loaded with, applied to the stored document
Save(stored, loadedDoc, assigned) ==
    [f \in DOMAIN stored |->
        IF f \in DOMAIN assigned /\ assigned[f] # loadedDoc[f] THEN assigned[f] ELSE stored[f]]

----------------------------------------------------------------------------
(* StudentsService.create *)

\* the _ids given out so far: an ObjectId is never given twice, and every
\* Student document was created together with an Enrollment
UsedIds == DOMAIN students \cup {e.studentId : e \in ledger}

InFlightCreates == Cardinality({r \in ReqIds : reqs[r].op = "create" /\ reqs[r].pc = "txn"})

\* up to the start of the transaction: the roll number is generated from
\* the ledger as it is now
create(r, classId, sectionId, academicYearId) ==
    /\ CanStart(r)
    /\ Cardinality(UsedIds) + InFlightCreates < Cardinality(StudentIds)
    /\ LET rollNumber == generateRollNumber(ledger, ClassDoc[classId].name,
                                            SectionDoc[sectionId].name, academicYearId)
       IN  Settle(r,
                [IdleReq EXCEPT !.op = "create", !.pc = "txn", !.classId = classId,
                                !.sectionId = sectionId, !.academicYearId = academicYearId,
                                !.rollNumber = Some(rollNumber)])
    /\ calls' = calls + 1
    /\ UNCHANGED <<years, students, ledger>>

\* the transaction: Student document and first Enrollment, or handleDupKey
createTxn(r) ==
    LET q == reqs[r]
        id == CHOOSE s \in StudentIds \ UsedIds :
                \A o \in StudentIds \ UsedIds :
                    (CHOOSE i \in 1..Len(StudentSeq) : StudentSeq[i] = s)
                      <= (CHOOSE i \in 1..Len(StudentSeq) : StudentSeq[i] = o)
        rollNumber == Get(q.rollNumber)
        student == [classId |-> q.classId, sectionId |-> q.sectionId,
                    academicYearId |-> q.academicYearId, rollNumber |-> rollNumber]
        enrollment == [studentId |-> id, academicYearId |-> q.academicYearId,
                       classId |-> q.classId, sectionId |-> q.sectionId,
                       rollNumber |-> rollNumber]
    IN  /\ q.op = "create" /\ q.pc = "txn"
        /\ IF /\ StudentIndexOk(students, id, q.academicYearId, rollNumber)
              /\ EnrollmentIndexOk(ledger, enrollment)
           THEN /\ students' = students @@ (id :> student)
                /\ ledger' = ledger \cup {enrollment}
                /\ Settle(r, Done([q EXCEPT !.studentId = id], "ok"))
           ELSE /\ Settle(r,
                                Done(q, handleDupKey({"academicYearId", "rollNumber"})))
                /\ UNCHANGED <<students, ledger>>
        /\ UNCHANGED <<years, calls>>

----------------------------------------------------------------------------
(* StudentsService.promote *)

\* up to the start of the transaction: the student is loaded, the two
\* academic-year rules and the existing-enrollment check are applied
promote(r, studentId, classId, sectionId, academicYearId) ==
    /\ CanStart(r)
    /\ LET q == [IdleReq EXCEPT !.op = "promote", !.studentId = studentId,
                                !.classId = classId, !.sectionId = sectionId,
                                !.academicYearId = academicYearId]
       IN  IF studentId \notin DOMAIN students
           THEN Settle(r, Done(q, "StudentNotFound"))
           ELSE LET student == Loaded(studentId)
                    isCurrent == assertIsCurrentAcademicYear(years, student.academicYearId)
                    isNext == assertNextAcademicYear(student.academicYearId, academicYearId)
                    outcome == IF isCurrent # "ok" THEN isCurrent
                               ELSE IF isNext # "ok" THEN isNext
                               ELSE IF HasEnrollment(ledger, studentId, academicYearId)
                                    THEN "AlreadyEnrolled"
                               ELSE "ok"
                IN  Settle(r,
                        IF outcome = "ok"
                        THEN [q EXCEPT !.pc = "txn", !.loaded = {student},
                                       !.fromAY = student.academicYearId]
                        ELSE Done([q EXCEPT !.fromAY = student.academicYearId], outcome))
    /\ calls' = calls + 1
    /\ UNCHANGED <<years, students, ledger>>

\* the transaction: the new Enrollment carries the roll number of the loaded
\* document; student.save() writes classId, sectionId and academicYearId.
\* A duplicate key aborts the transaction and is rethrown as it is.
promoteTxn(r) ==
    LET q == reqs[r]
        student == CHOOSE d \in q.loaded : TRUE
        enrollment == [studentId |-> q.studentId, academicYearId |-> q.academicYearId,
                       classId |-> q.classId, sectionId |-> q.sectionId,
                       rollNumber |-> student.rollNumber]
        saved == Save(students[q.studentId], student,
                      [classId |-> q.classId, sectionId |-> q.sectionId,
                       academicYearId |-> q.academicYearId])
    IN  /\ q.op = "promote" /\ q.pc = "txn"
        /\ IF /\ EnrollmentIndexOk(ledger, enrollment)
              /\ StudentIndexOk(students, q.studentId, saved.academicYearId, saved.rollNumber)
           THEN /\ ledger' = ledger \cup {enrollment}
                /\ students' = [students EXCEPT ![q.studentId] = saved]
                /\ Settle(r, Done(q, "ok"))
           ELSE /\ Settle(r, Done(q, "E11000"))
                /\ UNCHANGED <<students, ledger>>
        /\ UNCHANGED <<years, calls>>

----------------------------------------------------------------------------
(* StudentsService.reAdmit *)

\* Variant: re-admission behind the year rules of promote
reAdmit_WithYearRules(r, studentId, classId, sectionId, academicYearId) ==
    /\ CanStart(r)
    /\ LET q == [IdleReq EXCEPT !.op = "reAdmit", !.studentId = studentId,
                                !.classId = classId, !.sectionId = sectionId,
                                !.academicYearId = academicYearId]
       IN  Settle(r,
                IF studentId \notin DOMAIN students THEN Done(q, "StudentNotFound")
                ELSE IF assertNextAcademicYear(students[studentId].academicYearId,
                                               academicYearId) # "ok"
                     THEN Done(q, assertNextAcademicYear(students[studentId].academicYearId,
                                                         academicYearId))
                ELSE IF HasEnrollment(ledger, studentId, academicYearId)
                     THEN Done(q, "AlreadyEnrolled")
                ELSE [q EXCEPT !.pc = "txn", !.loaded = {Loaded(studentId)},
                               !.rollNumber = Some(generateRollNumber(ledger,
                                    ClassDoc[classId].name, SectionDoc[sectionId].name,
                                    academicYearId))])
    /\ calls' = calls + 1
    /\ UNCHANGED <<years, students, ledger>>

\* up to the start of the transaction: student, existing-enrollment check,
\* class and section lookups, roll-number generation
reAdmit(r, studentId, classId, sectionId, academicYearId) ==
    /\ CanStart(r)
    /\ LET q == [IdleReq EXCEPT !.op = "reAdmit", !.studentId = studentId,
                                !.classId = classId, !.sectionId = sectionId,
                                !.academicYearId = academicYearId]
       IN  Settle(r,
                IF studentId \notin DOMAIN students THEN Done(q, "StudentNotFound")
                ELSE IF HasEnrollment(ledger, studentId, academicYearId)
                     THEN Done(q, "AlreadyEnrolled")
                ELSE IF classId \notin ClassIds THEN Done(q, "ClassNotFound")
                ELSE IF sectionId \notin SectionIds THEN Done(q, "SectionNotFound")
                ELSE [q EXCEPT !.pc = "txn", !.loaded = {Loaded(studentId)},
                               !.rollNumber = Some(generateRollNumber(ledger,
                                    ClassDoc[classId].name, SectionDoc[sectionId].name,
                                    academicYearId))])
    /\ calls' = calls + 1
    /\ UNCHANGED <<years, students, ledger>>

\* Variant: the two writes against collections without unique indexes
reAdmitTxn_NoUniqueIndex(r) ==
    LET q == reqs[r]
        student == CHOOSE d \in q.loaded : TRUE
        rollNumber == Get(q.rollNumber)
        enrollment == [studentId |-> q.studentId, academicYearId |-> q.academicYearId,
                       classId |-> q.classId, sectionId |-> q.sectionId,
                       rollNumber |-> rollNumber]
        saved == Save(students[q.studentId], student,
                      [classId |-> q.classId, sectionId |-> q.sectionId,
                       academicYearId |-> q.academicYearId, rollNumber |-> rollNumber])
    IN  /\ q.op = "reAdmit" /\ q.pc = "txn"
        /\ ledger' = ledger \cup {enrollment}
        /\ students' = [students EXCEPT ![q.studentId] = saved]
        /\ Settle(r, Done(q, "ok"))
        /\ UNCHANGED <<years, calls>>

\* the transaction: new Enrollment with the generated roll number, and
\* student.save() of classId, sectionId, academicYearId and rollNumber
reAdmitTxn(r) ==
    LET q == reqs[r]
        student == CHOOSE d \in q.loaded : TRUE
        rollNumber == Get(q.rollNumber)
        enrollment == [studentId |-> q.studentId, academicYearId |-> q.academicYearId,
                       classId |-> q.classId, sectionId |-> q.sectionId,
                       rollNumber |-> rollNumber]
        saved == Save(students[q.studentId], student,
                      [classId |-> q.classId, sectionId |-> q.sectionId,
                       academicYearId |-> q.academicYearId, rollNumber |-> rollNumber])
    IN  /\ q.op = "reAdmit" /\ q.pc = "txn"
        /\ IF /\ EnrollmentIndexOk(ledger, enrollment)
              /\ StudentIndexOk(students, q.studentId, saved.academicYearId, saved.rollNumber)
           THEN /\ ledger' = ledger \cup {enrollment}
                /\ students' = [students EXCEPT ![q.studentId] = saved]
                /\ Settle(r, Done(q, "ok"))
           ELSE /\ Settle(r, Done(q, "E11000"))
                /\ UNCHANGED <<students, ledger>>
        /\ UNCHANGED <<years, calls>>

----------------------------------------------------------------------------
(* StudentsService.promoteBulk *)

\* position of a student id in the order the collection returns documents
IndexOf(id) == CHOOSE i \in 1..Len(StudentSeq) : StudentSeq[i] = id

\* the documents of a set of loaded students, in collection order
RECURSIVE InOrder(_, _)
InOrder(docs, i) ==
    IF i > Len(StudentSeq) THEN <<>>
    ELSE LET here == {d \in docs : d._id = StudentSeq[i]}
         IN  (IF here = {} THEN <<>> ELSE <<CHOOSE d \in here : TRUE>>) \o InOrder(docs, i + 1)

\* classModel.findOne({ order: { $gt } }).sort({ order: 1 })
nextClass(fromClassId) ==
    LET later == {c \in ClassIds : /\ IsSome(ClassDoc[c].order)
                                   /\ Get(ClassDoc[c].order) > Get(ClassDoc[fromClassId].order)}
    IN  IF later = {} THEN Nothing
        ELSE Some(CHOOSE c \in later :
                    \A d \in later : Get(ClassDoc[c].order) <= Get(ClassDoc[d].order))

\* sectionMapping: source section id -> id of the section of the target
\* class with the same name ignoring case; unmatched sections have no entry
sectionMapping(sourceSectionIds, targetClassId) ==
    LET targetSections == {t \in SectionIds : SectionDoc[t].classId = targetClassId}
        matches(src) == {t \in targetSections :
                            ToLowerCase(SectionDoc[t].name) = ToLowerCase(SectionDoc[src].name)}
    IN  [src \in {x \in sourceSectionIds \cap SectionIds : matches(x) # {}} |->
            CHOOSE t \in matches(src) : TRUE]

\* Variant: an unmapped section kept as it is instead of the exception
getTargetSectionId_KeepUnmapped(targetSectionId, mapping, hasMapping, currentSectionId) ==
    IF targetSectionId # "" THEN targetSectionId
    ELSE IF hasMapping /\ currentSectionId # ""
         THEN IF currentSectionId \in DOMAIN mapping THEN mapping[currentSectionId]
              ELSE currentSectionId
    ELSE currentSectionId

\* getTargetSectionId: "" stands for the thrown BadRequestException, whose
\* message names currentSectionId
getTargetSectionId(targetSectionId, mapping, hasMapping, currentSectionId) ==
    IF targetSectionId # "" THEN targetSectionId
    ELSE IF hasMapping /\ currentSectionId # ""
         THEN IF currentSectionId \in DOMAIN mapping THEN mapping[currentSectionId] ELSE ""
    ELSE currentSectionId

\* up to the start of the transaction
promoteBulk(r, fromClassId, fromSectionId, fromAY, toAcademicYearId, targetClassId, targetSectionId, studentIds) ==
    /\ CanStart(r)
    /\ LET q == [IdleReq EXCEPT !.op = "promoteBulk", !.fromClassId = fromClassId,
                                !.fromSectionId = fromSectionId, !.fromAY = fromAY,
                                !.academicYearId = toAcademicYearId,
                                !.classId = targetClassId, !.sectionId = targetSectionId,
                                !.studentIds = studentIds]
           isCurrent == assertIsCurrentAcademicYear(years, fromAY)
           found == {Loaded(s) : s \in {x \in DOMAIN students :
                        /\ students[x].classId = fromClassId
                        /\ students[x].academicYearId = fromAY
                        /\ (fromSectionId # "" => students[x].sectionId = fromSectionId)
                        /\ (studentIds # {} => x \in studentIds)}}
           isNext == assertNextAcademicYear(fromAY, toAcademicYearId)
           inferred == nextClass(fromClassId)
       IN  Settle(r,
                IF isCurrent # "ok" THEN Done(q, isCurrent)
                ELSE IF found = {} THEN Done(q, "ok")
                ELSE IF isNext # "ok" THEN Done(q, isNext)
                ELSE IF targetClassId # "" THEN [q EXCEPT !.pc = "txn", !.loaded = found]
                ELSE IF fromClassId \notin ClassIds \/ ~IsSome(ClassDoc[fromClassId].order)
                     THEN Done(q, "CannotInferNextClass")
                ELSE IF ~IsSome(inferred) THEN Done(q, "NoNextClass")
                ELSE [q EXCEPT !.pc = "txn", !.loaded = found, !.classId = Get(inferred)])
    /\ calls' = calls + 1
    /\ UNCHANGED <<years, students, ledger>>

\* insertMany(docs, { session, ordered: false }) inside the transaction:
\* a document that violates a unique index fails its write
RECURSIVE InsertMany(_, _, _)
InsertMany(enrollments, docs, i) ==
    IF i > Len(docs) THEN [enrollments |-> enrollments, failed |-> FALSE]
    ELSE IF EnrollmentIndexOk(enrollments, docs[i])
         THEN InsertMany(enrollments \cup {docs[i]}, docs, i + 1)
         ELSE LET rest == InsertMany(enrollments, docs, i + 1)
              IN  [rest EXCEPT !.failed = TRUE]

\* bulkWrite of the updateOne operations, in order, stopping at a failed one
RECURSIVE BulkWrite(_, _, _)
BulkWrite(studs, ops, i) ==
    IF i > Len(ops) THEN [students |-> studs, failed |-> FALSE]
    ELSE LET id == ops[i]._id
         IN  IF id \notin DOMAIN studs THEN BulkWrite(studs, ops, i + 1)
             ELSE IF StudentIndexOk(studs, id, ops[i].academicYearId, studs[id].rollNumber)
                  THEN BulkWrite([studs EXCEPT ![id] =
                                    [@ EXCEPT !.classId = ops[i].classId,
                                              !.sectionId = ops[i].sectionId,
                                              !.academicYearId = ops[i].academicYearId]],
                                 ops, i + 1)
                  ELSE [students |-> studs, failed |-> TRUE]

\* Variant: no transaction, and each student written in turn: the students
\* whose section is mapped are written although the call ends with the
\* unmapped-section error
promoteBulkTxn_NoRollback(r) ==
    LET q == reqs[r]
        sourceSectionIds == {d.sectionId : d \in {x \in q.loaded : x.sectionId # ""}}
        hasMapping == q.sectionId = "" /\ sourceSectionIds # {}
        mapping == sectionMapping(sourceSectionIds, q.classId)
        target(d) == getTargetSectionId(q.sectionId, mapping, hasMapping, d.sectionId)
        unmapped == \E d \in q.loaded : target(d) = ""
        found == InOrder({d \in q.loaded : target(d) # ""}, 1)
        docs == [i \in 1..Len(found) |->
                    [studentId |-> found[i]._id, academicYearId |-> q.academicYearId,
                     classId |-> q.classId, sectionId |-> target(found[i]),
                     rollNumber |-> found[i].rollNumber]]
        bulkOps == [i \in 1..Len(found) |->
                    [_id |-> found[i]._id, academicYearId |-> q.academicYearId,
                     classId |-> q.classId, sectionId |-> target(found[i])]]
        inserted == InsertMany(ledger, docs, 1)
        written == BulkWrite(students, bulkOps, 1)
        modified == Cardinality({i \in 1..Len(found) :
                        /\ found[i]._id \in DOMAIN students
                        /\ written.students[found[i]._id] # students[found[i]._id]})
    IN  /\ q.op = "promoteBulk" /\ q.pc = "txn"
        /\ ledger' = inserted.enrollments
        /\ students' = written.students
        /\ Settle(r, IF unmapped THEN Done(q, "UnmappedSection")
                     ELSE IF written.failed THEN Done(q, "E11000")
                     ELSE Done([q EXCEPT !.successful = modified], "ok"))
        /\ UNCHANGED <<years, calls>>

\* the transaction.  An unmapped section throws before the first write.  A
\* write that fails inside a multi-document transaction aborts the
\* transaction on the server: the catch around insertMany cannot keep it
\* alive, the following bulkWrite fails, and nothing is committed.
promoteBulkTxn(r) ==
    LET q == reqs[r]
        found == InOrder(q.loaded, 1)
        sourceSectionIds == {d.sectionId : d \in {x \in q.loaded : x.sectionId # ""}}
        hasMapping == q.sectionId = "" /\ sourceSectionIds # {}
        mapping == sectionMapping(sourceSectionIds, q.classId)
        target(d) == getTargetSectionId(q.sectionId, mapping, hasMapping, d.sectionId)
        docs == [i \in 1..Len(found) |->
                    [studentId |-> found[i]._id, academicYearId |-> q.academicYearId,
                     classId |-> q.classId, sectionId |-> target(found[i]),
                     rollNumber |-> found[i].rollNumber]]
        bulkOps == [i \in 1..Len(found) |->
                    [_id |-> found[i]._id, academicYearId |-> q.academicYearId,
                     classId |-> q.classId, sectionId |-> target(found[i])]]
        inserted == InsertMany(ledger, docs, 1)
        written == BulkWrite(students, bulkOps, 1)
        modified == Cardinality({i \in 1..Len(found) :
                        /\ found[i]._id \in DOMAIN students
                        /\ written.students[found[i]._id] # students[found[i]._id]})
    IN  /\ q.op = "promoteBulk" /\ q.pc = "txn"
        /\ IF \E i \in 1..Len(found) : target(found[i]) = ""
           THEN LET first == CHOOSE i \in 1..Len(found) :
                                /\ target(found[i]) = ""
                                /\ \A j \in 1..(i - 1) : target(found[j]) # ""
                IN  /\ Settle(r, Done([q EXCEPT !.detail = found[first].sectionId],
                                      "UnmappedSection"))
                    /\ UNCHANGED <<students, ledger>>
           ELSE IF inserted.failed
           THEN /\ Settle(r, Done(q, "TransactionAborted"))
                /\ UNCHANGED <<students, ledger>>
           ELSE IF written.failed
           THEN /\ Settle(r, Done(q, "E11000"))
                /\ UNCHANGED <<students, ledger>>
           ELSE /\ ledger' = inserted.enrollments
                /\ students' = written.students
                /\ Settle(r, Done([q EXCEPT !.successful = modified], "ok"))
        /\ UNCHANGED <<years, calls>>

----------------------------------------------------------------------------
(* StudentsService.reAdmitBulk *)

\* up to the start of the transaction: class and section lookups and the
\* find of the requested students
reAdmitBulk(r, studentIds, classId, sectionId, academicYearId) ==
    /\ CanStart(r)
    /\ LET q == [IdleReq EXCEPT !.op = "reAdmitBulk", !.studentIds = studentIds,
                                !.classId = classId, !.sectionId = sectionId,
                                !.academicYearId = academicYearId]
           found == {Loaded(s) : s \in studentIds \cap DOMAIN students}
       IN  Settle(r,
                IF studentIds = {} THEN Done(q, "StudentIdsRequired")
                ELSE IF classId \notin ClassIds THEN Done(q, "ClassNotFound")
                ELSE IF sectionId \notin SectionIds THEN Done(q, "SectionNotFound")
                ELSE IF found = {} THEN Done(q, "NoValidStudents")
                ELSE [q EXCEPT !.pc = "txn", !.loaded = found])
    /\ calls' = calls + 1
    /\ UNCHANGED <<years, students, ledger>>

\* The loop of the transaction callback over found[i..].  The enrollment
\* lookup and generateRollNumber are issued without the session, so they
\* read the committed ledger `committed`; create and findByIdAndUpdate run
\* in the session and see `tx`.  A failed write aborts the transaction, and
\* every later write in the session fails too.
RECURSIVE ReAdmitLoop(_, _, _, _, _)
ReAdmitLoop(q, found, i, committed, tx) ==
    IF i > Len(found) THEN tx
    ELSE LET studentId == found[i]._id
             rollNumber == generateRollNumber(committed, ClassDoc[q.classId].name,
                                              SectionDoc[q.sectionId].name, q.academicYearId)
             enrollment == [studentId |-> studentId, academicYearId |-> q.academicYearId,
                            classId |-> q.classId, sectionId |-> q.sectionId,
                            rollNumber |-> rollNumber]
             error == [tx EXCEPT !.errors = @ + 1]
         IN  IF HasEnrollment(committed, studentId, q.academicYearId)
             THEN ReAdmitLoop(q, found, i + 1, committed, error)
             ELSE IF tx.aborted
             THEN ReAdmitLoop(q, found, i + 1, committed, error)
             ELSE IF ~EnrollmentIndexOk(tx.enrollments, enrollment)
             THEN ReAdmitLoop(q, found, i + 1, committed, [error EXCEPT !.aborted = TRUE])
             ELSE IF /\ studentId \in DOMAIN tx.students
                     /\ ~StudentIndexOk(tx.students, studentId, q.academicYearId, rollNumber)
             THEN ReAdmitLoop(q, found, i + 1, committed, [error EXCEPT !.aborted = TRUE])
             ELSE ReAdmitLoop(q, found, i + 1, committed,
                    [tx EXCEPT !.enrollments = @ \cup {enrollment},
                               !.students = IF studentId \in DOMAIN @
                                            THEN [@ EXCEPT ![studentId] =
                                                    [classId |-> q.classId,
                                                     sectionId |-> q.sectionId,
                                                     academicYearId |-> q.academicYearId,
                                                     rollNumber |-> rollNumber]]
                                            ELSE @,
                               !.successCount = @ + 1])

\* the transaction: commit of an aborted transaction fails and the call
\* throws; otherwise the writes are committed and the report is returned
reAdmitBulkTxn(r) ==
    LET q == reqs[r]
        tx == ReAdmitLoop(q, InOrder(q.loaded, 1), 1, ledger,
                          [enrollments |-> ledger, students |-> students,
                           aborted |-> FALSE, successCount |-> 0, errors |-> 0])
    IN  /\ q.op = "reAdmitBulk" /\ q.pc = "txn"
        /\ IF tx.aborted
           THEN /\ Settle(r, Done(q, "TransactionAborted"))
                /\ UNCHANGED <<students, ledger>>
           ELSE /\ ledger' = tx.enrollments
                /\ students' = tx.students
                /\ Settle(r,
                        Done([q EXCEPT !.successful = tx.successCount,
                                       !.failed = tx.errors], "ok"))
        /\ UNCHANGED <<years, calls>>

----------------------------------------------------------------------------
(* AcademicYearService.setCurrent *)

\* findOne and the isActive check
setCurrent(r, id) ==
    /\ CanStart(r)
    /\ LET q == [IdleReq EXCEPT !.op = "setCurrent", !.academicYearId = id]
       IN  Settle(r,
                IF ~years[id].isActive THEN Done(q, "InactiveYear")
                ELSE [q EXCEPT !.pc = "unsetAllCurrent"])
    /\ calls' = calls + 1
    /\ UNCHANGED <<years, students, ledger>>

\* repo.unsetAllCurrent()
unsetAllCurrent(r) ==
    /\ reqs[r].op = "setCurrent" /\ reqs[r].pc = "unsetAllCurrent"
    /\ years' = [y \in YearIds |-> [years[y] EXCEPT !.isCurrent = FALSE]]
    /\ Settle(r, [reqs[r] EXCEPT !.pc = "updateById"])
    /\ UNCHANGED <<students, ledger, calls>>

\* Variant: the update against a collection without the unique partial index
setCurrentUpdate_NoUniqueIndex(r) ==
    LET q == reqs[r]
    IN  /\ q.op = "setCurrent" /\ q.pc = "updateById"
        /\ years' = [years EXCEPT ![q.academicYearId].isCurrent = TRUE]
        /\ Settle(r, Done(q, "ok"))
        /\ UNCHANGED <<students, ledger, calls>>

\* Variant: the duplicate key swallowed instead of turned into a conflict
setCurrentUpdate_ConflictSwallowed(r) ==
    LET q == reqs[r]
    IN  /\ q.op = "setCurrent" /\ q.pc = "updateById"
        /\ IF \E y \in YearIds \ {q.academicYearId} : years[y].isCurrent
           THEN /\ Settle(r, Done(q, "ok"))
                /\ UNCHANGED years
           ELSE /\ years' = [years EXCEPT ![q.academicYearId].isCurrent = TRUE]
                /\ Settle(r, Done(q, "ok"))
        /\ UNCHANGED <<students, ledger, calls>>

\* repo.updateById(id, { isCurrent: true }) under the unique partial index
\* on isCurrent: true; a duplicate key becomes a ConflictException
setCurrentUpdate(r) ==
    LET q == reqs[r]
    IN  /\ q.op = "setCurrent" /\ q.pc = "updateById"
        /\ IF \E y \in YearIds \ {q.academicYearId} : years[y].isCurrent
           THEN /\ Settle(r, Done(q, "CurrentYearConflict"))
                /\ UNCHANGED years
           ELSE /\ years' = [years EXCEPT ![q.academicYearId].isCurrent = TRUE]
                /\ Settle(r, Done(q, "ok"))
        /\ UNCHANGED <<students, ledger, calls>>

----------------------------------------------------------------------------
(* AcademicYearService.setActive, update, remove *)

\* findOne and the guard against deactivating the current year
setActive(r, id, active) ==
    /\ CanStart(r)
    /\ LET q == [IdleReq EXCEPT !.op = "setActive", !.academicYearId = id,
                                !.patch = Some(active)]
       IN  Settle(r,
                IF ~active /\ years[id].isCurrent THEN Done(q, "CannotDeactivateCurrent")
                ELSE [q EXCEPT !.pc = "updateById"])
    /\ calls' = calls + 1
    /\ UNCHANGED <<years, students, ledger>>

\* findOne, no If-Match header, name and dates left as they are (so the date
\* and overlap checks pass); isActive is dto.isActive ?? current.isActive
update(r, id, isActive) ==
    /\ CanStart(r)
    /\ LET q == [IdleReq EXCEPT !.op = "update", !.academicYearId = id,
                                !.patch = IF IsSome(isActive) THEN isActive
                                          ELSE Some(years[id].isActive)]
       IN  Settle(r, [q EXCEPT !.pc = "updateById"])
    /\ calls' = calls + 1
    /\ UNCHANGED <<years, students, ledger>>

\* findOne and the guard against deleting the current year; the delete is
\* the patch { isActive: false }
remove(r, id) ==
    /\ CanStart(r)
    /\ LET q == [IdleReq EXCEPT !.op = "remove", !.academicYearId = id,
                                !.patch = Some(FALSE)]
       IN  Settle(r,
                IF years[id].isCurrent THEN Done(q, "CannotDeleteCurrent")
                ELSE [q EXCEPT !.pc = "updateById"])
    /\ calls' = calls + 1
    /\ UNCHANGED <<years, students, ledger>>

\* repo.updateById(id, patch) of setActive, update and remove
updateById(r) ==
    LET q == reqs[r]
    IN  /\ q.op \in {"setActive", "update", "remove"} /\ q.pc = "updateById"
        /\ years' = [years EXCEPT ![q.academicYearId].isActive = Get(q.patch)]
        /\ Settle(r, Done(q, "ok"))
        /\ UNCHANGED <<students, ledger, calls>>

----------------------------------------------------------------------------
(* StudentsService.update (classId, sectionId) and StudentsService.delete *)

\* normRoll: the roll number of the dto without its surrounding white space
normRoll(roll) == roll.text

\* update(id, dto) with dto.classId, dto.sectionId, dto.academicYearId and
\* dto.rollNumber, each given or not: the duplicate check on the snapshots
\* when year or roll number is given, the $set document, and when class or
\* section is given the read of the current student
updateStudent(r, id, classId, sectionId, academicYearId, rollNumber) ==
    /\ CanStart(r)
    /\ LET toUpdate == [classId |-> classId, sectionId |-> sectionId,
                        academicYearId |-> academicYearId,
                        rollNumber |-> IF IsSome(rollNumber)
                                       THEN Some(normRoll(Get(rollNumber))) ELSE Nothing]
           q == [IdleReq EXCEPT !.op = "students.update", !.studentId = id,
                                !.toUpdate = toUpdate]
           checksDuplicate == IsSome(academicYearId) \/ IsSome(rollNumber)
           isClassOrSectionUpdated == IsSome(classId) \/ IsSome(sectionId)
           finalAcademicYearId == IF IsSome(academicYearId) THEN Get(academicYearId)
                                  ELSE students[id].academicYearId
           finalRollNumber == IF IsSome(rollNumber) THEN normRoll(Get(rollNumber))
                              ELSE students[id].rollNumber
       IN  IF (checksDuplicate \/ isClassOrSectionUpdated) /\ id \notin DOMAIN students
           THEN Settle(r, Done(q, "StudentNotFound"))
           ELSE IF checksDuplicate
                   /\ ~StudentIndexOk(students, id, finalAcademicYearId, finalRollNumber)
           THEN Settle(r, Done(q, "RollNumberExists"))
           ELSE IF ~isClassOrSectionUpdated
           THEN Settle(r, [q EXCEPT !.pc = "findByIdAndUpdate"])
           ELSE Settle(r,
                    [q EXCEPT !.pc = "updateEnrollment",
                              !.classId = IF IsSome(classId) THEN Get(classId)
                                          ELSE students[id].classId,
                              !.sectionId = IF IsSome(sectionId) THEN Get(sectionId)
                                            ELSE students[id].sectionId,
                              !.academicYearId = students[id].academicYearId])
    /\ calls' = calls + 1
    /\ UNCHANGED <<years, students, ledger>>

\* enrollmentModel.findOneAndUpdate({studentId, academicYearId},
\* {$set: {classId, sectionId}}, {upsert: false})
updateEnrollment(r) ==
    LET q == reqs[r]
    IN  /\ q.op = "students.update" /\ q.pc = "updateEnrollment"
        /\ ledger' = {IF e.studentId = q.studentId /\ e.academicYearId = q.academicYearId
                      THEN [e EXCEPT !.classId = q.classId, !.sectionId = q.sectionId]
                      ELSE e : e \in ledger}
        /\ Settle(r, [q EXCEPT !.pc = "findByIdAndUpdate"])
        /\ UNCHANGED <<years, students, calls>>

\* studentModel.findByIdAndUpdate(id, {$set: toUpdate}): null when the
\* student does not exist; a duplicate key goes through handleDupKey
findByIdAndUpdate(r) ==
    LET q == reqs[r]
        id == q.studentId
        updated == [f \in DOMAIN students[id] |->
                        IF IsSome(q.toUpdate[f]) THEN Get(q.toUpdate[f])
                        ELSE students[id][f]]
    IN  /\ q.op = "students.update" /\ q.pc = "findByIdAndUpdate"
        /\ IF id \notin DOMAIN students
           THEN /\ Settle(r, Done(q, "null"))
                /\ UNCHANGED students
           ELSE IF ~StudentIndexOk(students, id, updated.academicYearId, updated.rollNumber)
           THEN /\ Settle(r, Done(q, handleDupKey({"academicYearId", "rollNumber"})))
                /\ UNCHANGED students
           ELSE /\ students' = [students EXCEPT ![id] = updated]
                /\ Settle(r, Done(q, "ok"))
        /\ UNCHANGED <<years, ledger, calls>>

\* studentModel.findByIdAndDelete(id): the Student document goes, its
\* Enrollment documents stay
delete(r, id) ==
    /\ CanStart(r)
    /\ students' = [s \in DOMAIN students \ {id} |-> students[s]]
    /\ Settle(r, Done([IdleReq EXCEPT !.op = "delete", !.studentId = id],
                      IF id \in DOMAIN students THEN "ok" ELSE "null"))
    /\ calls' = calls + 1
    /\ UNCHANGED <<years, ledger>>

----------------------------------------------------------------------------
(* Specification *)

\* the sets of years created with isActive true (the default); the others
\* were created with isActive false
InitialActive == {{}, {"y1", "y2"}}

\* no helper applied on its own
NoProbe == [fn |-> "none"]

\* an empty Payment collection, no order at Razorpay, no payment request
PayIdle == [op |-> "none", pc |-> "idle", studentId |-> "", productId |-> "", orderId |-> 0, rec |-> 0]
NoPayments ==
    /\ payments = <<>>
    /\ captured = {}
    /\ payReqs = [r \in ReqIds |-> PayIdle]

\* an empty otp_management collection, no OTP request, the clock at 0
OtpIdle == [op |-> "none", pc |-> "idle", otp |-> 0, doc |-> Nothing, at |-> 0]
NoOtps ==
    /\ otps = [doc |-> Nothing, inserted |-> 0]
    /\ otpReqs = [r \in ReqIds |-> OtpIdle]
    /\ now = 0
    /\ wrongCodes = [count |-> 0, fifthAt |-> Nothing]

\* an empty database but for the academic years, each created with the
\* isActive flag of its request and isCurrent false
Init ==
    /\ \E active \in InitialActive :
            years = [y \in YearIds |-> [isActive |-> y \in active, isCurrent |-> FALSE]]
    /\ students = <<>>
    /\ ledger = {}
    /\ reqs = [r \in ReqIds |-> IdleReq]
    /\ returned = NoResponse
    /\ calls = 0
    /\ probe = NoProbe
    /\ NoPayments /\ NoOtps

\* the (classId, sectionId) pairs requests ask for
CreatePlacements == {<<"c1", "c1a">>, <<"c1", "c1b">>}
TargetPlacements == {<<"c1", "c1a">>, <<"c2", "c2a">>}
BulkPlacements == {<<"c1", "c1a">>}
\* (targetClassId, targetSectionId) of promoteBulk: both inferred, or both given
BulkTargets == {<<"", "">>, <<"c2", "c2a">>}

Next ==
    \/ \E r \in ReqIds, p \in CreatePlacements, y \in YearIds : create(r, p[1], p[2], y)
    \/ \E r \in ReqIds : createTxn(r)
    \/ \E r \in ReqIds, s \in StudentIds, p \in TargetPlacements, y \in YearIds :
            promote(r, s, p[1], p[2], y)
    \/ \E r \in ReqIds : promoteTxn(r)
    \/ \E r \in ReqIds, s \in StudentIds, p \in TargetPlacements, y \in YearIds :
            reAdmit(r, s, p[1], p[2], y)
    \/ \E r \in ReqIds : reAdmitTxn(r)
    \/ \E r \in ReqIds, fc \in ClassIds, fy \in YearIds, ty \in YearIds,
          t \in BulkTargets :
            promoteBulk(r, fc, "", fy, ty, t[1], t[2], {})
    \/ \E r \in ReqIds : promoteBulkTxn(r)
    \/ \E r \in ReqIds, ids \in SUBSET StudentIds, p \in BulkPlacements, y \in YearIds :
            reAdmitBulk(r, ids, p[1], p[2], y)
    \/ \E r \in ReqIds : reAdmitBulkTxn(r)
    \/ \E r \in ReqIds, y \in YearIds : setCurrent(r, y)
    \/ \E r \in ReqIds : unsetAllCurrent(r)
    \/ \E r \in ReqIds : setCurrentUpdate(r)

Spec == Init /\ [][Next]_vars

\* the academic-year administration next to single admissions and promotions
NextYears ==
    \/ \E r \in ReqIds, y \in YearIds : create(r, "c1", "c1a", y)
    \/ \E r \in ReqIds : createTxn(r)
    \/ \E r \in ReqIds, s \in StudentIds, y \in YearIds : promote(r, s, "c2", "c2a", y)
    \/ \E r \in ReqIds : promoteTxn(r)
    \/ \E r \in ReqIds, y \in YearIds : setCurrent(r, y)
    \/ \E r \in ReqIds : unsetAllCurrent(r)
    \/ \E r \in ReqIds : setCurrentUpdate(r)
    \/ \E r \in ReqIds, y \in YearIds, a \in BOOLEAN : setActive(r, y, a)
    \/ \E r \in ReqIds, y \in YearIds, a \in {Nothing, Some(TRUE), Some(FALSE)} :
            update(r, y, a)
    \/ \E r \in ReqIds, y \in YearIds : remove(r, y)
    \/ \E r \in ReqIds : updateById(r)

SpecYears == Init /\ [][NextYears]_vars

\* the class / section edits a student update asks for
UpdateClassIds == {Nothing, Some("c2")}
UpdateSectionIds == {Nothing, Some("c1b"), Some("c2a")}
\* the academic year and the roll number (typed with white space around it)
\* a student update asks for
UpdateYearIds == {Nothing, Some("y2")}
UpdateRollNumbers ==
    {Nothing, Some([spaces |-> TRUE, text |-> [prefix |-> <<"1", "A">>, digits |-> <<0, 0, 2>>]])}

\* admissions, and the edits and deletions of student records
NextAdmin ==
    \/ \E r \in ReqIds, y \in YearIds : create(r, "c1", "c1a", y)
    \/ \E r \in ReqIds : createTxn(r)
    \/ \E r \in ReqIds, s \in StudentIds, c \in UpdateClassIds, x \in UpdateSectionIds,
          y \in UpdateYearIds, n \in UpdateRollNumbers :
            updateStudent(r, s, c, x, y, n)
    \/ \E r \in ReqIds : updateEnrollment(r)
    \/ \E r \in ReqIds : findByIdAndUpdate(r)
    \/ \E r \in ReqIds, s \in StudentIds : delete(r, s)

SpecAdmin == Init /\ [][NextAdmin]_vars

----------------------------------------------------------------------------
(* The sequence check applied to academic-year documents of any shape *)

\* labels "2024-2025", "2025-2026", "2024-25"
SeqLabels ==
    {<<"2", "0", "2", "4", "-", "2", "0", "2", "5">>,
     <<"2", "0", "2", "5", "-", "2", "0", "2", "6">>,
     <<"2", "0", "2", "4", "-", "2", "5">>}

\* names "2024-2025", "2025-2026", "2026-2027": the form parseAYLabel reads
YearLongName == [y \in YearIds |->
    CASE y = "y1" -> <<"2", "0", "2", "4", "-", "2", "0", "2", "5">>
      [] y = "y2" -> <<"2", "0", "2", "5", "-", "2", "0", "2", "6">>
      [] y = "y3" -> <<"2", "0", "2", "6", "-", "2", "0", "2", "7">>]

\* documents as findById(id).lean() can return them (AcademicYearLike): with
\* or without order, with or without label, with their date range, the name
\* in the form the service writes or in the long form
SeqDocs ==
    {[_id |-> y, name |-> IF long THEN YearLongName[y] ELSE YearName[y],
      order |-> o, label |-> l,
      startDate |-> Some(YearStart[y]), endDate |-> Some(YearEnd[y])] :
        y \in YearIds,
        long \in BOOLEAN,
        o \in {Nothing} \cup {Some(k) : k \in 1..3},
        l \in {Nothing} \cup {Some(x) : x \in SeqLabels}}

InitSeq ==
    /\ years = [y \in YearIds |-> [isActive |-> TRUE, isCurrent |-> FALSE]]
    /\ students = <<>>
    /\ ledger = {}
    /\ reqs = [r \in ReqIds |-> IdleReq]
    /\ returned = NoResponse
    /\ calls = 0
    /\ probe = NoProbe
    /\ NoPayments /\ NoOtps

\* assertNextAcademicYear after its two getAcademicYearById calls
ApplyNextAcademicYearRule(from, to) ==
    /\ probe = NoProbe
    /\ probe' = [fn |-> "assertNextAcademicYear", from |-> from, to |-> to,
                 result |-> IF from._id = to._id THEN "SameYear"
                            ELSE nextAcademicYearRule(from, to)]
    /\ UNCHANGED <<years, students, ledger, reqs, returned, calls, paymentVars, otpVars>>

NextSeq == \E from \in SeqDocs, to \in SeqDocs : ApplyNextAcademicYearRule(from, to)

SpecSeq == InitSeq /\ [][NextSeq]_vars

----------------------------------------------------------------------------
(* generateRollNumber applied to ledgers of any content *)

\* counters of the roll numbers a ledger of the bound can hold: "001", "002",
\* "010", "999", "1000"
RollDigits == {<<0, 0, 1>>, <<0, 0, 2>>, <<0, 1, 0>>, <<9, 9, 9>>, <<1, 0, 0, 0>>}

RollEntries ==
    {[studentId |-> "s1", academicYearId |-> y, classId |-> "c1", sectionId |-> "c1a",
      rollNumber |-> [prefix |-> <<"10", sec>>, digits |-> d]] :
        y \in {"y1", "y2"}, sec \in {"A", "B"}, d \in RollDigits}

\* the ledgers of at most two entries
RollLedgers == {{}} \cup {{a, b} : a \in RollEntries, b \in RollEntries}

ApplyGenerateRollNumber(enrollments, className, sectionName, academicYearId) ==
    /\ probe = NoProbe
    /\ probe' = [fn |-> "generateRollNumber", enrollments |-> enrollments,
                 className |-> className, sectionName |-> sectionName,
                 academicYearId |-> academicYearId,
                 result |-> generateRollNumber(enrollments, className, sectionName,
                                               academicYearId)]
    /\ UNCHANGED <<years, students, ledger, reqs, returned, calls, paymentVars, otpVars>>

NextRoll ==
    \E enrollments \in RollLedgers, sectionName \in {"a", " a ", "b"},
       academicYearId \in {"y1", "y2"} :
        ApplyGenerateRollNumber(enrollments, "10", sectionName, academicYearId)

SpecRoll == InitSeq /\ [][NextRoll]_vars

----------------------------------------------------------------------------
(* generateRollNumber called again and again, each roll number stored *)

\* counters of a roll number that a promotion carried into a year: "001",
\* "009", "099", "998", "999"
CarriedDigits == {<<0, 0, 1>>, <<0, 0, 9>>, <<0, 9, 9>>, <<9, 9, 8>>, <<9, 9, 9>>}

\* the entries of one class in years y1 and y2 before the first call: none,
\* or one entry whose roll number was carried forward from the year before
\* (entries of other years and prefixes are not read by the lookup)
CarriedLedgers ==
    {{}} \cup {{[studentId |-> 0, academicYearId |-> y, classId |-> "c1",
                 sectionId |-> x,
                 rollNumber |-> [prefix |-> RollPrefix(ClassDoc["c1"].name,
                                                       SectionDoc[x].name),
                                 digits |-> d]]} :
                    y \in {"y1", "y2"}, x \in {"c1a", "c1b"}, d \in CarriedDigits}

InitAdmissions ==
    /\ years = [y \in YearIds |-> [isActive |-> TRUE, isCurrent |-> FALSE]]
    /\ students = <<>>
    /\ ledger \in CarriedLedgers
    /\ reqs = [r \in ReqIds |-> IdleReq]
    /\ returned = NoResponse
    /\ calls = 0
    /\ probe = NoProbe
    /\ NoPayments /\ NoOtps

\* one call of generateRollNumber and the insert of an Enrollment with the
\* roll number it returned, refused by the (academicYearId, rollNumber) index
\* when the roll number is taken
GenerateAndStore(sectionId, academicYearId) ==
    LET className == ClassDoc["c1"].name
        sectionName == SectionDoc[sectionId].name
        rollNumber == generateRollNumber(ledger, className, sectionName, academicYearId)
        enrollment == [studentId |-> calls + 1, academicYearId |-> academicYearId,
                       classId |-> "c1", sectionId |-> sectionId,
                       rollNumber |-> rollNumber]
    IN  /\ calls < MaxCalls
        /\ calls' = calls + 1
        /\ probe' = [fn |-> "generateRollNumber", enrollments |-> ledger,
                     className |-> className, sectionName |-> sectionName,
                     academicYearId |-> academicYearId, result |-> rollNumber]
        /\ ledger' = IF EnrollmentIndexOk(ledger, enrollment)
                     THEN ledger \cup {enrollment} ELSE ledger
        /\ UNCHANGED <<years, students, reqs, returned, paymentVars, otpVars>>

NextAdmissions ==
    \E x \in {"c1a", "c1b"}, y \in {"y1", "y2"} : GenerateAndStore(x, y)

SpecAdmissions == InitAdmissions /\ [][NextAdmissions]_vars

----------------------------------------------------------------------------
(* PaymentsService: createOrder, verifyPayment, handleWebhook *)

MaxPayCalls == 4       \* payment requests started in one behaviour
MaxOrders == 2         \* Razorpay orders created in one behaviour

\* the PaymentProduct collection: one active product for class c1 in y1
ProductIds == {"p1"}
ProductDoc == [p \in ProductIds |->
    [classId |-> "c1", academicYearId |-> "y1", isActive |-> TRUE]]

\* the _ids of the Payment documents matching a filter on studentId,
\* productId and status
PaymentsWith(studentId, productId, status) ==
    {i \in 1..Len(payments) : /\ payments[i].studentId = studentId
                              /\ payments[i].productId = productId
                              /\ payments[i].status = status}

\* findOne: the first matching document in insertion order, 0 for none
First(ids) == IF ids = {} THEN 0 ELSE CHOOSE i \in ids : \A j \in ids : i <= j

PayCanStart(r) ==
    /\ calls < MaxPayCalls
    /\ payReqs[r].pc = "idle"
    /\ (r = "r2" => payReqs["r1"].pc # "idle")

\* a payment request either goes on to its next round trip or returns
PaySettle(r, q, response) ==
    /\ IF q.pc = "done"
       THEN /\ payReqs' = [payReqs EXCEPT ![r] = PayIdle]
            /\ returned' = response
       ELSE /\ payReqs' = [payReqs EXCEPT ![r] = q]
            /\ UNCHANGED returned
    /\ UNCHANGED <<years, students, ledger, reqs, probe, otpVars>>

PayResponse(q, result, orderId) ==
    [op |-> q.op, result |-> result, studentId |-> q.studentId, orderId |-> orderId]

OrdersInFlight ==
    Cardinality({r \in ReqIds : payReqs[r].op = "createOrder" /\ payReqs[r].pc # "idle"})

\* createOrder up to the already-paid check: product, student,
\* applicability, findOne({studentId, productId, status: 'paid'})
createOrder(r, studentId, productId) ==
    /\ PayCanStart(r)
    /\ Len(payments) + OrdersInFlight < MaxOrders
    /\ LET q == [PayIdle EXCEPT !.op = "createOrder", !.studentId = studentId,
                                !.productId = productId]
           fail(e) == PaySettle(r, [q EXCEPT !.pc = "done"], PayResponse(q, e, 0))
       IN  IF productId \notin ProductIds \/ ~ProductDoc[productId].isActive
           THEN fail("InvalidProduct")
           ELSE IF studentId \notin DOMAIN students
           THEN fail("StudentNotFound")
           ELSE IF \/ ProductDoc[productId].classId # students[studentId].classId
                   \/ ProductDoc[productId].academicYearId # students[studentId].academicYearId
           THEN fail("ProductNotApplicable")
           ELSE IF PaymentsWith(studentId, productId, "paid") # {}
           THEN fail("AlreadyPaid")
           ELSE PaySettle(r, [q EXCEPT !.pc = "findOpen"], returned)
    /\ calls' = calls + 1
    /\ UNCHANGED <<payments, captured>>

\* findOne({studentId, productId, status: 'created'}): an open order is
\* returned again
findOpenOrder(r) ==
    LET q == payReqs[r]
        existingOpen == First(PaymentsWith(q.studentId, q.productId, "created"))
    IN  /\ q.op = "createOrder" /\ q.pc = "findOpen"
        /\ IF existingOpen # 0
           THEN PaySettle(r, [q EXCEPT !.pc = "done"],
                          PayResponse(q, "reused", payments[existingOpen].razorpayOrderId))
           ELSE PaySettle(r, [q EXCEPT !.pc = "create"], returned)
        /\ UNCHANGED <<payments, captured, calls>>

\* razor.orders.create and paymentModel.create of the 'created' record
createPayment(r) ==
    LET q == payReqs[r]
        orderId == Len(payments) + 1
    IN  /\ q.op = "createOrder" /\ q.pc = "create"
        /\ payments' = Append(payments,
                [studentId |-> q.studentId, productId |-> q.productId,
                 status |-> "created", razorpayOrderId |-> orderId])
        /\ PaySettle(r, [q EXCEPT !.pc = "done"], PayResponse(q, "created", orderId))
        /\ UNCHANGED <<captured, calls>>

\* Razorpay checkout: the student pays an order; from then on Razorpay
\* signs the payment for the client and sends payment.captured
checkout(orderId) ==
    /\ orderId \in 1..Len(payments)
    /\ orderId \notin captured
    /\ captured' = captured \cup {orderId}
    /\ UNCHANGED <<years, students, ledger, reqs, returned, calls, probe, payments,
                   payReqs, otpVars>>

\* verifyPayment up to the signature comparison: findOne({studentId,
\* razorpayOrderId}), the idempotent return for a paid record, the HMAC
\* (a matching signature exists only for a captured payment)
verifyPayment(r, studentId, orderId, valid) ==
    /\ PayCanStart(r)
    /\ valid => orderId \in captured
    /\ LET q == [PayIdle EXCEPT !.op = "verifyPayment", !.studentId = studentId,
                                !.orderId = orderId]
           rec == First({i \in 1..Len(payments) :
                            /\ payments[i].studentId = studentId
                            /\ payments[i].razorpayOrderId = orderId})
       IN  IF rec = 0
           THEN PaySettle(r, [q EXCEPT !.pc = "done"], PayResponse(q, "OrderNotFound", orderId))
           ELSE IF payments[rec].status = "paid"
           THEN PaySettle(r, [q EXCEPT !.pc = "done"], PayResponse(q, "paid", orderId))
           ELSE IF ~valid
           THEN PaySettle(r, [q EXCEPT !.pc = "markFailed", !.rec = rec], returned)
           ELSE PaySettle(r, [q EXCEPT !.pc = "save", !.rec = rec], returned)
    /\ calls' = calls + 1
    /\ UNCHANGED <<payments, captured>>

\* updateOne({_id: rec._id}, {$set: {status: 'failed', ...}}) and the
\* BadRequestException
markFailed(r) ==
    LET q == payReqs[r]
    IN  /\ q.op = "verifyPayment" /\ q.pc = "markFailed"
        /\ payments' = [payments EXCEPT ![q.rec].status = "failed"]
        /\ PaySettle(r, [q EXCEPT !.pc = "done"],
                      PayResponse(q, "SignatureVerificationFailed", q.orderId))
        /\ UNCHANGED <<captured, calls>>

\* rec.status = 'paid'; rec.save()
savePaid(r) ==
    LET q == payReqs[r]
    IN  /\ q.op = "verifyPayment" /\ q.pc = "save"
        /\ payments' = [payments EXCEPT ![q.rec].status = "paid"]
        /\ PaySettle(r, [q EXCEPT !.pc = "done"], PayResponse(q, "paid", q.orderId))
        /\ UNCHANGED <<captured, calls>>

\* handleWebhook for a payment.captured event: the signature check, then
\* updateOne({razorpayOrderId}, {$set: {status: 'paid', ...}})
handleWebhook(r, orderId, valid) ==
    /\ PayCanStart(r)
    /\ valid => orderId \in captured
    /\ LET q == [PayIdle EXCEPT !.op = "handleWebhook", !.orderId = orderId, !.pc = "done"]
       IN  IF ~valid
           THEN /\ PaySettle(r, q, PayResponse(q, "InvalidWebhookSignature", orderId))
                /\ UNCHANGED payments
           ELSE /\ payments' = [i \in 1..Len(payments) |->
                                    IF payments[i].razorpayOrderId = orderId
                                    THEN [payments[i] EXCEPT !.status = "paid"]
                                    ELSE payments[i]]
                /\ PaySettle(r, q, PayResponse(q, "received", orderId))
    /\ calls' = calls + 1
    /\ UNCHANGED captured

\* student s1 admitted to class c1 in y1, nothing ordered yet
InitPayments ==
    /\ years = [y \in YearIds |-> [isActive |-> TRUE, isCurrent |-> FALSE]]
    /\ LET rollNumber == generateRollNumber({}, ClassDoc["c1"].name, SectionDoc["c1a"].name, "y1")
       IN  /\ students = ("s1" :> [classId |-> "c1", sectionId |-> "c1a",
                                   academicYearId |-> "y1", rollNumber |-> rollNumber])
           /\ ledger = {[studentId |-> "s1", academicYearId |-> "y1", classId |-> "c1",
                         sectionId |-> "c1a", rollNumber |-> rollNumber]}
    /\ reqs = [r \in ReqIds |-> IdleReq]
    /\ returned = NoResponse
    /\ calls = 0
    /\ probe = NoProbe
    /\ NoPayments /\ NoOtps

NextPayments ==
    \/ \E r \in ReqIds : createOrder(r, "s1", "p1")
    \/ \E r \in ReqIds : findOpenOrder(r)
    \/ \E r \in ReqIds : createPayment(r)
    \/ \E o \in 1..MaxOrders : checkout(o)
    \/ \E r \in ReqIds, o \in 1..MaxOrders, valid \in BOOLEAN : verifyPayment(r, "s1", o, valid)
    \/ \E r \in ReqIds : markFailed(r)
    \/ \E r \in ReqIds : savePaid(r)
    \/ \E r \in ReqIds, o \in 1..MaxOrders, valid \in BOOLEAN : handleWebhook(r, o, valid)

SpecPayments == InitPayments /\ [][NextPayments]_vars

----------------------------------------------------------------------------
(* OtpService (create, check, verify) behind AuthService.sendOtp / resendOtp *)
(* for one (channel, identifier)                                            *)

OTP_EXPIRY_MS == 600000
MAX_ATTEMPTS == 5
LOCKOUT_MS == 300000
RESEND_COOLDOWN_MS == 30000

MaxOtpCalls == 8       \* OTP requests started in one behaviour
MaxNow == 30000        \* the clock stops here

\* the codes generateCode draws from, and the codes a client submits
Codes == {1, 2}

OtpCanStart(r) ==
    /\ calls < MaxOtpCalls
    /\ otpReqs[r].pc = "idle"
    /\ (r = "r2" => otpReqs["r1"].pc # "idle")

OtpResponse(q, result) == [op |-> q.op, result |-> result, otp |-> q.otp]

\* the incorrect codes answered in a row for the code in force, and the time
\* the fifth of them was answered; a lockout that has elapsed is forgotten
Elapsed(w) ==
    IF IsSome(w.fifthAt) /\ now >= Get(w.fifthAt) + LOCKOUT_MS
    THEN [count |-> 0, fifthAt |-> Nothing] ELSE w

Record(result, op) ==
    LET w == Elapsed(wrongCodes)
    IN  IF IsSome(w.fifthAt) THEN w
        ELSE IF result = "IncorrectOtp"
        THEN [count |-> w.count + 1,
              fifthAt |-> IF w.count + 1 = MAX_ATTEMPTS THEN Some(now) ELSE Nothing]
        ELSE IF result \in {"ok", "sent"} THEN [count |-> 0, fifthAt |-> Nothing]
        ELSE w

\* an OTP request either goes on to its next round trip or returns
OtpSettle(r, q, result) ==
    /\ IF q.pc = "done"
       THEN /\ otpReqs' = [otpReqs EXCEPT ![r] = OtpIdle]
            /\ returned' = OtpResponse(q, result)
            /\ wrongCodes' = Record(result, q.op)
       ELSE /\ otpReqs' = [otpReqs EXCEPT ![r] = q]
            /\ UNCHANGED <<returned, wrongCodes>>
    /\ UNCHANGED <<years, students, ledger, reqs, probe, paymentVars, now>>

\* getResendLeftMs
getResendLeftMs(doc) ==
    IF ~IsSome(doc) \/ ~IsSome(Get(doc).lastSentAt) THEN 0
    ELSE LET left == RESEND_COOLDOWN_MS - (now - Get(Get(doc).lastSentAt))
         IN  IF left > 0 THEN left ELSE 0

\* AuthService.sendOtp / resendOtp up to the cooldown check
resendOtp(r) ==
    /\ OtpCanStart(r)
    /\ LET q == [OtpIdle EXCEPT !.op = "resendOtp"]
       IN  IF getResendLeftMs(otps.doc) > 0
           THEN OtpSettle(r, [q EXCEPT !.pc = "done"], "PleaseWait")
           ELSE OtpSettle(r, [q EXCEPT !.pc = "create"], "")
    /\ calls' = calls + 1
    /\ UNCHANGED otps

\* OtpService.create: the upsert of a fresh code with attempts 0 and
\* lockedUntil null
OtpService_create(r, code) ==
    LET q == otpReqs[r]
        fields == [code |-> code, expiresAt |-> now + OTP_EXPIRY_MS, attempts |-> 0,
                   lockedUntil |-> Nothing, lastSentAt |-> Some(now)]
    IN  /\ q.op = "resendOtp" /\ q.pc = "create"
        /\ otps' = IF IsSome(otps.doc)
                   THEN [otps EXCEPT !.doc = Some([_id |-> Get(otps.doc)._id] @@ fields)]
                   ELSE [doc |-> Some([_id |-> otps.inserted + 1] @@ fields),
                         inserted |-> otps.inserted + 1]
        /\ OtpSettle(r, [q EXCEPT !.pc = "markResent"], "")
        /\ UNCHANGED calls

\* OtpService.markResent, then the code is sent out
markResent(r) ==
    LET q == otpReqs[r]
    IN  /\ q.op = "resendOtp" /\ q.pc = "markResent"
        /\ otps' = IF IsSome(otps.doc)
                   THEN [otps EXCEPT !.doc = Some([Get(otps.doc) EXCEPT !.lastSentAt = Some(now)])]
                   ELSE otps
        /\ OtpSettle(r, [q EXCEPT !.pc = "done"], "sent")
        /\ UNCHANGED calls

\* OtpService.check / verify up to the comparison of the code: findOne, the
\* lockout, the expiry
checkOrVerify(r, op, otp) ==
    /\ OtpCanStart(r)
    /\ LET q == [OtpIdle EXCEPT !.op = op, !.otp = otp, !.doc = otps.doc, !.at = now]
       IN  IF ~IsSome(otps.doc)
           THEN OtpSettle(r, [q EXCEPT !.pc = "done"], "OtpNotFound")
           ELSE LET doc == Get(otps.doc)
                IN  IF IsSome(doc.lockedUntil) /\ now < Get(doc.lockedUntil)
                    THEN OtpSettle(r, [q EXCEPT !.pc = "done"], "TooManyAttempts")
                    ELSE IF now > doc.expiresAt
                    THEN OtpSettle(r, [q EXCEPT !.pc = "deleteExpired"], "")
                    ELSE IF otp # doc.code
                    THEN OtpSettle(r, [q EXCEPT !.pc = "countAttempt"], "")
                    ELSE IF op = "verify"
                    THEN OtpSettle(r, [q EXCEPT !.pc = "deleteUsed"], "")
                    ELSE OtpSettle(r, [q EXCEPT !.pc = "done"], "ok")
    /\ calls' = calls + 1
    /\ UNCHANGED otps

\* deleteOne({_id: doc._id}) of an expired or of a verified code
deleteOne(r) ==
    LET q == otpReqs[r]
    IN  /\ q.pc \in {"deleteExpired", "deleteUsed"}
        /\ otps' = IF IsSome(otps.doc) /\ Get(otps.doc)._id = Get(q.doc)._id
                   THEN [otps EXCEPT !.doc = Nothing] ELSE otps
        /\ OtpSettle(r, [q EXCEPT !.pc = "done"],
                     IF q.pc = "deleteUsed" THEN "ok" ELSE "OtpExpired")
        /\ UNCHANGED calls

\* updateOne({_id: doc._id}, {$set: {attempts, lockedUntil?}}) with the
\* attempts of the document read and the time of the read
countAttempt(r) ==
    LET q == otpReqs[r]
        attempts == Get(q.doc).attempts + 1
    IN  /\ q.pc = "countAttempt"
        /\ otps' = IF IsSome(otps.doc) /\ Get(otps.doc)._id = Get(q.doc)._id
                   THEN [otps EXCEPT !.doc = Some(
                            [Get(otps.doc) EXCEPT
                                !.attempts = attempts,
                                !.lockedUntil = IF attempts >= MAX_ATTEMPTS
                                                THEN Some(q.at + LOCKOUT_MS) ELSE @])]
                   ELSE otps
        /\ OtpSettle(r, [q EXCEPT !.pc = "done"], "IncorrectOtp")
        /\ UNCHANGED calls

\* time passes
Tick ==
    /\ now < MaxNow
    /\ now' = now + RESEND_COOLDOWN_MS
    /\ UNCHANGED <<years, students, ledger, reqs, returned, calls, probe, paymentVars,
                   otps, otpReqs, wrongCodes>>

NextOtp ==
    \/ \E r \in ReqIds : resendOtp(r)
    \/ \E r \in ReqIds, code \in Codes : OtpService_create(r, code)
    \/ \E r \in ReqIds : markResent(r)
    \/ \E r \in ReqIds, op \in {"check", "verify"}, otp \in Codes : checkOrVerify(r, op, otp)
    \/ \E r \in ReqIds : deleteOne(r)
    \/ \E r \in ReqIds : countAttempt(r)
    \/ Tick

SpecOtp == InitSeq /\ [][NextOtp]_vars

----------------------------------------------------------------------------
(* Claims *)

\* C1: after a successful promote, promoteBulk, reAdmit or reAdmitBulk, the
\* snapshot (classId, sectionId, academicYearId, rollNumber) of every student
\* the call updated equals the student's ledger entry for the target year.
C1_SnapshotEqualsLedgerEntry ==
    [][\A r \in ReqIds :
        (/\ reqs[r].pc = "txn" /\ reqs'[r].pc = "idle"
         /\ reqs[r].op \in {"promote", "promoteBulk", "reAdmit", "reAdmitBulk"}
         /\ returned'.result = "ok")
        => LET y == reqs[r].academicYearId
               updated == {s \in DOMAIN students : students'[s] # students[s]}
                            \cup (IF reqs[r].op \in {"promote", "reAdmit"}
                                  THEN {reqs[r].studentId} ELSE {})
           IN  \A s \in updated :
                 /\ \E e \in ledger' : e.studentId = s /\ e.academicYearId = y
                 /\ \A e \in ledger' :
                      (e.studentId = s /\ e.academicYearId = y)
                      => /\ students'[s].classId = e.classId
                         /\ students'[s].sectionId = e.sectionId
                         /\ students'[s].academicYearId = e.academicYearId
                         /\ students'[s].rollNumber = e.rollNumber]_vars

\* C2: the ledger holds at most one entry per (studentId, academicYearId).
C2_OneEntryPerStudentYear ==
    \A e1 \in ledger : \A e2 \in ledger :
        (e1.studentId = e2.studentId /\ e1.academicYearId = e2.academicYearId) => e1 = e2

\* a request lost the race for (student, year): its insert was refused while
\* the student holds entries for two years
C2_Witness ==
    /\ returned.op \in {"promote", "reAdmit"}
    /\ returned.result = "E11000"
    /\ \E e \in ledger : /\ e.studentId = returned.studentId
                         /\ e.academicYearId = returned.academicYearId
    /\ Cardinality({e \in ledger : e.studentId = returned.studentId}) >= 2

\* C3: no two ledger entries of one academic year share a rollNumber, also
\* when two requests generated the same roll number before either committed;
\* the request that commits second fails and changes neither ledger nor
\* snapshot.
C3_RollUniquePerYear ==
    /\ [](\A e1 \in ledger : \A e2 \in ledger :
            (e1.academicYearId = e2.academicYearId /\ e1.rollNumber = e2.rollNumber)
                => e1 = e2)
    /\ [][\A r \in ReqIds :
            (/\ reqs[r].pc = "txn" /\ reqs'[r].pc = "idle"
             /\ reqs[r].op \in {"create", "reAdmit"}
             /\ \E e \in ledger : /\ e.academicYearId = reqs[r].academicYearId
                                  /\ e.rollNumber = Get(reqs[r].rollNumber))
            => /\ returned'.result # "ok"
               /\ ledger' = ledger
               /\ students' = students]_vars

\* a reAdmit lost the roll-number race: it failed on the duplicate key, its
\* student has no entry for the year, another student has one
C3_Witness ==
    /\ returned.op = "reAdmit"
    /\ returned.result = "E11000"
    /\ ~\E e \in ledger : /\ e.studentId = returned.studentId
                          /\ e.academicYearId = returned.academicYearId
    /\ students[returned.studentId].academicYearId # returned.academicYearId
    /\ \E e \in ledger : /\ e.academicYearId = returned.academicYearId
                         /\ e.studentId # returned.studentId

\* C4: promote is atomic: when it returns, either the ledger has gained the
\* entry for (student, target year) and the snapshot points to the target
\* class, section and year, or neither ledger nor snapshot has changed.
C4_PromoteAtomic ==
    [][\A r \in ReqIds :
        (reqs[r].pc = "txn" /\ reqs'[r].pc = "idle" /\ reqs[r].op = "promote")
        => LET q == reqs[r]
           IN  \/ /\ ledger' = ledger /\ students' = students
               \/ /\ \E e \in ledger' \ ledger : /\ e.studentId = q.studentId
                                                  /\ e.academicYearId = q.academicYearId
                  /\ students'[q.studentId].classId = q.classId
                  /\ students'[q.studentId].sectionId = q.sectionId
                  /\ students'[q.studentId].academicYearId = q.academicYearId]_vars

\* C5: when promoteBulk returns an error, no ledger entry has been added and
\* no snapshot has been changed.
C5_PromoteBulkErrorWritesNothing ==
    [][(/\ returned'.op = "promoteBulk"
        /\ returned'.result # "ok"
        /\ \/ (calls' = calls + 1 /\ reqs' = reqs)
           \/ \E r \in ReqIds : /\ reqs[r].op = "promoteBulk"
                                /\ reqs[r].pc = "txn" /\ reqs'[r].pc = "idle")
       => (ledger' = ledger /\ students' = students)]_vars

\* a promoteBulk hit an unmapped section inside its transaction while the
\* database holds candidate students
C5_Witness ==
    /\ returned.op = "promoteBulk"
    /\ returned.result = "UnmappedSection"
    /\ \E s \in DOMAIN students : /\ students[s].academicYearId = returned.fromAY
                                  /\ students[s].sectionId = "c1b"

\* C6: promote and promoteBulk go on only when the source year is the
\* resolved current year (the record flagged isCurrent, else the active record
\* with the latest startDate); with no flagged and no active year, or with a
\* different source year, they fail with a validation error and write nothing.
C6_CurrentYearGate ==
    [][LET flagged == {y \in YearIds : years[y].isCurrent}
           active == {y \in YearIds : years[y].isActive}
           resolved == IF flagged # {} THEN flagged
                       ELSE {y \in active : \A z \in active : YearStart[z] <= YearStart[y]}
       IN  /\ \A r \in ReqIds :
                (/\ reqs[r].pc = "idle" /\ reqs'[r].pc = "txn"
                 /\ reqs'[r].op \in {"promote", "promoteBulk"})
                => reqs'[r].fromAY \in resolved
           /\ (/\ calls' = calls + 1 /\ reqs' = reqs
               /\ returned'.op \in {"promote", "promoteBulk"}
               /\ returned'.result # "StudentNotFound"
               /\ returned'.fromAY \notin resolved)
              => /\ returned'.result = IF resolved = {} THEN "NoCurrentYear"
                                       ELSE "NotCurrentYear"
                 /\ returned'.result \in ValidationErrors
                 /\ ledger' = ledger /\ students' = students
           /\ (/\ calls' = calls + 1 /\ reqs' = reqs
               /\ returned'.op \in {"promote", "promoteBulk"}
               /\ returned'.result \in {"NoCurrentYear", "NotCurrentYear"})
              => returned'.fromAY \notin resolved]_vars

\* a promotion went through under the fallback: no year is flagged, two years
\* are active, and the student left the later one
C6_Witness ==
    /\ returned.op = "promote"
    /\ returned.result = "ok"
    /\ returned.fromAY = "y2"
    /\ \A y \in YearIds : ~years[y].isCurrent
    /\ years["y1"].isActive /\ years["y2"].isActive

\* C7: every successful promote or promoteBulk places the students in the
\* immediate successor of the source year: no other academic year lies
\* between the source year and the target year.
C7_ImmediateSuccessor ==
    (/\ returned.op \in {"promote", "promoteBulk"}
     /\ returned.result = "ok"
     /\ returned.op = "promoteBulk" => returned.successful > 0)
    => /\ YearStart[returned.academicYearId] > YearStart[returned.fromAY]
       /\ ~\E z \in YearIds : /\ YearStart[z] > YearStart[returned.fromAY]
                              /\ YearStart[z] < YearStart[returned.academicYearId]

\* C8 as stated: after a successful promotion created the entry (S, Y2), a
\* later promote or reAdmit targeting (S, Y2) fails with a ConflictError and
\* leaves ledger and snapshot unchanged.
C8_Original ==
    [][(/\ returned.op = "promote" /\ returned.result = "ok"
        /\ calls' = calls + 1
        /\ \/ /\ reqs' = reqs
              /\ returned'.op \in {"promote", "reAdmit"}
              /\ returned'.studentId = returned.studentId
              /\ returned'.academicYearId = returned.academicYearId
           \/ \E r \in ReqIds : /\ reqs'[r] # reqs[r]
                                /\ reqs'[r].op \in {"promote", "reAdmit"}
                                /\ reqs'[r].studentId = returned.studentId
                                /\ reqs'[r].academicYearId = returned.academicYearId)
       => /\ reqs' = reqs
          /\ returned'.result \in ConflictErrors
          /\ ledger' = ledger /\ students' = students]_vars

\* C8 amended: a promote or reAdmit targeting a (student, year) that has a
\* ledger entry fails at once and leaves ledger and snapshot unchanged; reAdmit
\* fails with the already-enrolled conflict error; promote applies the
\* academic-year rules first, so it fails with a validation error when the
\* snapshot year is not the current year or the target does not pass the
\* next-year check, and with the conflict error otherwise.
C8_ExistingEnrollmentRejected ==
    [][\A s \in DOMAIN students : \A y \in YearIds :
        (/\ \E e \in ledger : e.studentId = s /\ e.academicYearId = y
         /\ calls' = calls + 1
         /\ \/ /\ reqs' = reqs
               /\ returned'.op \in {"promote", "reAdmit"}
               /\ returned'.studentId = s /\ returned'.academicYearId = y
            \/ \E r \in ReqIds : /\ reqs'[r] # reqs[r]
                                 /\ reqs'[r].op \in {"promote", "reAdmit"}
                                 /\ reqs'[r].studentId = s
                                 /\ reqs'[r].academicYearId = y)
        => LET flagged == {z \in YearIds : years[z].isCurrent}
               active == {z \in YearIds : years[z].isActive}
               resolved == IF flagged # {} THEN flagged
                           ELSE {z \in active : \A w \in active : YearStart[w] <= YearStart[z]}
               from == students[s].academicYearId
               yearRulesPass == from \in resolved /\ YearStart[y] > YearEnd[from]
           IN  /\ reqs' = reqs
               /\ ledger' = ledger /\ students' = students
               /\ returned'.op = "reAdmit" => returned'.result = "AlreadyEnrolled"
               /\ returned'.op = "promote" =>
                    IF yearRulesPass THEN returned'.result = "AlreadyEnrolled"
                    ELSE returned'.result \in ValidationErrors]_vars

\* a reAdmit was refused for an entry that a promotion created (the entry
\* carries a roll number that was not generated for its class and section)
C8_Witness ==
    /\ returned.op = "reAdmit"
    /\ returned.result = "AlreadyEnrolled"
    /\ \E e \in ledger :
          /\ e.studentId = returned.studentId
          /\ e.academicYearId = returned.academicYearId
          /\ e.rollNumber.prefix # RollPrefix(ClassDoc[e.classId].name, SectionDoc[e.sectionId].name)

\* C9: of two concurrent promote requests for the same student and target
\* year exactly one commits; the other adds no second ledger entry and ends
\* with a duplicate-key conflict mapped to ConflictError.
C9_PromoteRaceConflict ==
    [][\A r \in ReqIds :
        (/\ reqs[r].op = "promote" /\ reqs[r].pc = "txn" /\ reqs'[r].pc = "idle"
         /\ \E e \in ledger : /\ e.studentId = reqs[r].studentId
                              /\ e.academicYearId = reqs[r].academicYearId)
        => /\ ledger' = ledger /\ students' = students
           /\ returned'.result \in ConflictErrors]_vars

\* C10: reAdmitBulk over n existing students of whom k already have an
\* enrollment for the target year reports successful = n - k and failed = k,
\* and each of the other n - k students ends with a ledger entry for the
\* target year and the snapshot updated to it.
C10_ReAdmitBulkReport ==
    [][\A r \in ReqIds :
        (/\ reqs[r].op = "reAdmitBulk" /\ reqs[r].pc = "txn" /\ reqs'[r].pc = "idle"
         /\ reqs[r].studentIds \subseteq DOMAIN students)
        => LET q == reqs[r]
               enrolled == {s \in q.studentIds :
                              \E e \in ledger : /\ e.studentId = s
                                                /\ e.academicYearId = q.academicYearId}
               n == Cardinality(q.studentIds)
               k == Cardinality(enrolled)
           IN  /\ returned'.result = "ok"
               /\ returned'.successful = n - k
               /\ returned'.failed = k
               /\ \A s \in q.studentIds \ enrolled :
                    \E e \in ledger' \ ledger :
                       /\ e.studentId = s
                       /\ e.academicYearId = q.academicYearId
                       /\ students'[s].academicYearId = q.academicYearId
                       /\ students'[s].classId = q.classId
                       /\ students'[s].sectionId = q.sectionId
                       /\ students'[s].rollNumber = e.rollNumber]_vars

\* C11 as stated: for every year Y that is not flagged isCurrent while no
\* other year is active, promote of a student whose snapshot year is Y fails
\* with a validation error.
C11_Original ==
    [][\A s \in DOMAIN students :
        LET Y == students[s].academicYearId
        IN  (/\ ~years[Y].isCurrent
             /\ \A z \in YearIds \ {Y} : ~years[z].isActive
             /\ calls' = calls + 1
             /\ \/ reqs' = reqs /\ returned'.op = "promote" /\ returned'.studentId = s
                \/ \E r \in ReqIds : /\ reqs'[r] # reqs[r]
                                     /\ reqs'[r].op = "promote"
                                     /\ reqs'[r].studentId = s)
            => /\ reqs' = reqs
               /\ returned'.result \in ValidationErrors]_vars

\* C11 amended: promote of a student whose snapshot year Y is not the
\* resolved current year (Y is not flagged and, with no year flagged, is not
\* the active year with the latest startDate; in particular when no year at
\* all is active) fails with a validation error whatever the target year, and
\* writes nothing; an unflagged Y that is the only active year is the resolved
\* current year and passes the gate.
C11_NotCurrentYearRejected ==
    [][\A s \in DOMAIN students :
        LET Y == students[s].academicYearId
            flagged == {z \in YearIds : years[z].isCurrent}
            active == {z \in YearIds : years[z].isActive}
            resolved == IF flagged # {} THEN flagged
                        ELSE {z \in active : \A w \in active : YearStart[w] <= YearStart[z]}
            failed == /\ reqs' = reqs
                      /\ returned'.op = "promote" /\ returned'.studentId = s
            goesOn == \E r \in ReqIds : /\ reqs'[r] # reqs[r]
                                        /\ reqs'[r].op = "promote"
                                        /\ reqs'[r].studentId = s
        IN  (calls' = calls + 1 /\ (failed \/ goesOn))
            => /\ Y \notin resolved
                  => /\ failed
                     /\ returned'.result = IF resolved = {} THEN "NoCurrentYear"
                                           ELSE "NotCurrentYear"
                     /\ returned'.result \in ValidationErrors
                     /\ ledger' = ledger /\ students' = students
               /\ (flagged = {} /\ active = {Y}) =>
                     returned'.result \notin {"NoCurrentYear", "NotCurrentYear"} \/ goesOn]_vars

\* a promotion to the year that follows the snapshot year was refused because
\* no year is flagged and none is active
C11_Witness ==
    /\ returned.op = "promote"
    /\ returned.result = "NoCurrentYear"
    /\ returned.studentId \in DOMAIN students
    /\ \A z \in YearIds : ~years[z].isCurrent /\ ~years[z].isActive
    /\ YearStart[returned.academicYearId]
         = YearStart[students[returned.studentId].academicYearId] + 10

\* C12: promote whose target year equals the student's snapshot year fails
\* and writes nothing; when that year is the resolved current year the
\* failure is the same-year rejection.
C12_SameYearRejected ==
    [][\A s \in DOMAIN students :
        LET Y == students[s].academicYearId
            flagged == {z \in YearIds : years[z].isCurrent}
            active == {z \in YearIds : years[z].isActive}
            resolved == IF flagged # {} THEN flagged
                        ELSE {z \in active : \A w \in active : YearStart[w] <= YearStart[z]}
        IN  (/\ calls' = calls + 1
             /\ \/ /\ reqs' = reqs
                   /\ returned'.op = "promote" /\ returned'.studentId = s
                   /\ returned'.academicYearId = Y
                \/ \E r \in ReqIds : /\ reqs'[r] # reqs[r]
                                     /\ reqs'[r].op = "promote"
                                     /\ reqs'[r].studentId = s
                                     /\ reqs'[r].academicYearId = Y)
            => /\ reqs' = reqs
               /\ returned'.result \in ValidationErrors
               /\ Y \in resolved => returned'.result = "SameYear"
               /\ ledger' = ledger /\ students' = students]_vars

\* a promotion to the student's own year was refused although that year is
\* flagged as the current year
C12_Witness ==
    /\ returned.op = "promote"
    /\ returned.result = "SameYear"
    /\ returned.studentId \in DOMAIN students
    /\ students[returned.studentId].academicYearId = returned.academicYearId
    /\ years[returned.academicYearId].isCurrent

\* C13: when the source and the target document both carry a numeric order,
\* the sequence check accepts if and only if target.order = source.order + 1,
\* whatever their labels and dates say.
C13_OrderRule ==
    (/\ probe.fn = "assertNextAcademicYear"
     /\ probe.from._id # probe.to._id
     /\ probe.from.order # <<>> /\ probe.to.order # <<>>)
    => /\ probe.result = "ok" <=> probe.to.order[1] = probe.from.order[1] + 1
       /\ probe.result # "ok" => probe.result = "NotImmediateNext"

\* orders 1 and 3 were rejected although the target's dates follow the
\* source's
C13_Witness ==
    /\ probe.fn = "assertNextAcademicYear"
    /\ probe.from.order = <<1>> /\ probe.to.order = <<3>>
    /\ probe.to.startDate[1] > probe.from.endDate[1]
    /\ probe.result = "NotImmediateNext"

\* C14: promote and promoteBulk never regenerate a roll number: the ledger
\* entry they create carries the rollNumber the snapshot had when the call
\* read it, and the snapshot's rollNumber is left unchanged; reAdmit and
\* reAdmitBulk write a freshly generated roll number to the ledger entry and
\* to the snapshot.
C14_RollNumberCarriedOrFresh ==
    [][\A r \in ReqIds :
        /\ (reqs[r].pc = "idle" /\ reqs'[r].pc = "txn" /\ reqs'[r].op = "promote")
           => \A d \in reqs'[r].loaded :
                d.rollNumber = students[reqs'[r].studentId].rollNumber
        /\ (reqs[r].pc = "idle" /\ reqs'[r].pc = "txn" /\ reqs'[r].op = "promoteBulk")
           => \A d \in reqs'[r].loaded : d.rollNumber = students[d._id].rollNumber
        /\ (reqs[r].pc = "idle" /\ reqs'[r].pc = "txn" /\ reqs'[r].op = "reAdmit")
           => reqs'[r].rollNumber =
                <<generateRollNumber(ledger, ClassDoc[reqs'[r].classId].name,
                                     SectionDoc[reqs'[r].sectionId].name,
                                     reqs'[r].academicYearId)>>
        /\ (reqs[r].pc = "txn" /\ reqs'[r].pc = "idle" /\ returned'.result = "ok")
           => LET q == reqs[r]
                  new == ledger' \ ledger
              IN  /\ q.op \in {"promote", "promoteBulk"}
                     => /\ \A e \in new : \E d \in q.loaded :
                              d._id = e.studentId /\ e.rollNumber = d.rollNumber
                        /\ \A s \in DOMAIN students :
                              students'[s].rollNumber = students[s].rollNumber
                  /\ q.op = "promote" => \E e \in new : e.studentId = q.studentId
                  /\ q.op = "reAdmit"
                     => /\ \E e \in new : e.studentId = q.studentId
                        /\ \A e \in new : e.rollNumber = q.rollNumber[1]
                        /\ students'[q.studentId].rollNumber = q.rollNumber[1]
                  /\ q.op = "reAdmitBulk"
                     => \A e \in new :
                          /\ e.rollNumber =
                               generateRollNumber(ledger, ClassDoc[q.classId].name,
                                                  SectionDoc[q.sectionId].name,
                                                  q.academicYearId)
                          /\ students'[e.studentId].rollNumber = e.rollNumber]_vars

\* C15: promoteBulk without targetSectionId fails with the validation error
\* that names an unmapped section id whenever its transaction finds a
\* candidate whose source section has no section of the same name, ignoring
\* case, in the target class; it then writes nothing.  With every candidate
\* section mapped it does not raise this error.
C15_UnmappedSectionRejected ==
    [][\A r \in ReqIds :
        (/\ reqs[r].op = "promoteBulk" /\ reqs[r].pc = "txn" /\ reqs'[r].pc = "idle"
         /\ reqs[r].sectionId = "")
        => LET q == reqs[r]
               sameName(a, b) == ToLowerCase(SectionDoc[a].name) = ToLowerCase(SectionDoc[b].name)
               unmapped == {d.sectionId : d \in
                              {x \in q.loaded :
                                 /\ x.sectionId # ""
                                 /\ ~\E t \in SectionIds :
                                       /\ SectionDoc[t].classId = q.classId
                                       /\ x.sectionId \in SectionIds
                                       /\ sameName(t, x.sectionId)}}
           IN  /\ unmapped # {}
                  => /\ returned'.result = "UnmappedSection"
                     /\ returned'.result \in ValidationErrors
                     /\ returned'.detail \in unmapped
                     /\ ledger' = ledger /\ students' = students
               /\ unmapped = {} => returned'.result # "UnmappedSection"]_vars

\* a batch with one candidate in a mapped section and one in section b of
\* class 1 was refused, the error naming c1b
C15_Witness ==
    /\ returned.op = "promoteBulk"
    /\ returned.result = "UnmappedSection"
    /\ returned.detail = "c1b"
    /\ \E s \in DOMAIN students : \E t \in DOMAIN students :
          /\ students[s].sectionId = "c1a" /\ students[t].sectionId = "c1b"
          /\ students[s].academicYearId = returned.fromAY
          /\ students[t].academicYearId = returned.fromAY

\* C16: when some candidates of promoteBulk already have a ledger entry for
\* the target year, the batch completes without error, and every candidate
\* that had no entry for the target year gets its ledger entry and its
\* snapshot update committed.
C16_DuplicateEntriesSwallowed ==
    [][\A r \in ReqIds :
        (/\ reqs[r].op = "promoteBulk" /\ reqs[r].pc = "txn" /\ reqs'[r].pc = "idle"
         /\ reqs[r].sectionId # ""
         /\ \E d \in reqs[r].loaded : \E e \in ledger :
                e.studentId = d._id /\ e.academicYearId = reqs[r].academicYearId)
        => LET q == reqs[r]
           IN  /\ returned'.result = "ok"
               /\ \A d \in q.loaded :
                    (~\E e \in ledger : /\ e.studentId = d._id
                                        /\ e.academicYearId = q.academicYearId)
                    => /\ \E e \in ledger' : /\ e.studentId = d._id
                                             /\ e.academicYearId = q.academicYearId
                                             /\ e.classId = q.classId
                       /\ students'[d._id].academicYearId = q.academicYearId
                       /\ students'[d._id].classId = q.classId]_vars

\* C17: generateRollNumber returns the upper-cased, trimmed class-section
\* prefix followed by a 3-digit zero-padded counter: 1 when the year's ledger
\* has no roll with that prefix, otherwise the highest existing counter of
\* that prefix in that year plus 1.
C17_NextRollNumber ==
    probe.fn = "generateRollNumber"
    => LET section == IF probe.sectionName = "b" THEN "B" ELSE "A"
           counters == {ParseInt(e.rollNumber.digits) : e \in
                          {x \in probe.enrollments :
                              /\ x.academicYearId = probe.academicYearId
                              /\ x.rollNumber.prefix = <<"10", section>>}}
           highest == CHOOSE n \in counters : \A m \in counters : m <= n
           expected == IF counters = {} THEN 1 ELSE highest + 1
       IN  /\ probe.result.prefix = <<"10", section>>
           /\ Len(probe.result.digits) = 3
           /\ ParseInt(probe.result.digits) = expected

\* C18: at most one AcademicYear record has isCurrent = true, in every
\* state, the states between the steps of concurrent setCurrent calls
\* included.
C18_AtMostOneCurrent ==
    Cardinality({y \in YearIds : years[y].isCurrent}) <= 1

\* of two overlapping setCurrent calls for different years the second update
\* was refused by the index while the other year is flagged
C18_Witness ==
    /\ returned.op = "setCurrent"
    /\ returned.result = "CurrentYearConflict"
    /\ \E y \in YearIds \ {returned.academicYearId} : years[y].isCurrent

\* C19: the record flagged isCurrent has isActive = true in every state,
\* under any interleaving of setCurrent, setActive, update and remove.
C19_CurrentYearStaysActive ==
    \A y \in YearIds : years[y].isCurrent => years[y].isActive

\* C20: the Enrollment ledger is append-only: an entry that exists for a
\* (student, year) is still there after every step of the students service,
\* with the same classId, sectionId and rollNumber
C20_LedgerAppendOnly ==
    [][\A e \in ledger :
          \E f \in ledger' :
              /\ f.studentId = e.studentId /\ f.academicYearId = e.academicYearId
              /\ f.classId = e.classId /\ f.sectionId = e.sectionId
              /\ f.rollNumber = e.rollNumber]_vars

\* C21: reAdmit applies no eligibility or sequence check.  A reAdmit call for
\* an existing student, class and section is refused before its transaction
\* exactly when the ledger holds an entry for (student, target year), whatever
\* year is current and however the target relates to the snapshot year; its
\* transaction ends with success or with the duplicate-key error of a unique
\* index, never with an academic-year rule.
C21_ReAdmitNoYearCheck ==
    [][/\ \A s \in DOMAIN students : \A y \in YearIds :
            (/\ calls' = calls + 1
             /\ \/ /\ reqs' = reqs
                   /\ returned'.op = "reAdmit"
                   /\ returned'.studentId = s /\ returned'.academicYearId = y
                \/ \E r \in ReqIds : /\ reqs'[r] # reqs[r]
                                     /\ reqs'[r].op = "reAdmit"
                                     /\ reqs'[r].studentId = s
                                     /\ reqs'[r].academicYearId = y)
            => IF \E e \in ledger : e.studentId = s /\ e.academicYearId = y
               THEN reqs' = reqs /\ returned'.result = "AlreadyEnrolled"
               ELSE \E r \in ReqIds : reqs'[r] # reqs[r] /\ reqs'[r].pc = "txn"
       /\ \A r \in ReqIds :
            (reqs[r].op = "reAdmit" /\ reqs[r].pc = "txn" /\ reqs'[r].pc = "idle")
            => \/ returned'.result = "ok"
               \/ /\ returned'.result = "E11000"
                  /\ LET y == reqs[r].academicYearId
                         roll == Get(reqs[r].rollNumber)
                     IN  \/ \E e \in ledger :
                              /\ e.academicYearId = y
                              /\ e.studentId = reqs[r].studentId \/ e.rollNumber = roll
                         \/ \E o \in DOMAIN students \ {reqs[r].studentId} :
                              students[o].rollNumber = roll]_vars

\* a student was re-admitted into a year that lies before a year the
\* student already has an entry for, while that later year is the snapshot
\* year and no year is flagged current
C21_Witness ==
    /\ returned.op = "reAdmit" /\ returned.result = "ok"
    /\ \A z \in YearIds : ~years[z].isCurrent
    /\ \E e \in ledger :
          /\ e.studentId = returned.studentId
          /\ YearStart[e.academicYearId] > YearStart[returned.academicYearId]

\* C22: a reAdmitBulk transaction does not abort on a per-student failure:
\* it returns a report with successful + failed = total, where total is the
\* number of requested student ids and successful is the number of students
\* for whom it committed a ledger entry and the snapshot update.
C22_ReAdmitBulkContinues ==
    [][\A r \in ReqIds :
        (reqs[r].op = "reAdmitBulk" /\ reqs[r].pc = "txn" /\ reqs'[r].pc = "idle")
        => LET q == reqs[r]
               total == Cardinality(q.studentIds)
               committed == {s \in q.studentIds :
                               /\ \E e \in ledger' \ ledger :
                                     e.studentId = s /\ e.academicYearId = q.academicYearId
                               /\ s \in DOMAIN students'
                               /\ students'[s].academicYearId = q.academicYearId}
           IN  /\ returned'.result = "ok"
               /\ returned'.successful + returned'.failed = total
               /\ returned'.successful = Cardinality(committed)]_vars

\* C23: when every roll number generateRollNumber returns is stored before
\* the next call, each call for a class, section and academic year returns a
\* roll number that is not in that year's ledger, with a counter strictly
\* above the counter of every roll number of that prefix already in the
\* year's ledger (the ones earlier calls returned included), counters of 999
\* and above included.
C23_SuccessiveRollsIncrease ==
    [][calls' = calls + 1 =>
        LET r == probe'.result
            y == probe'.academicYearId
        IN  \A e \in ledger :
                e.academicYearId = y =>
                    /\ e.rollNumber # r
                    /\ e.rollNumber.prefix = r.prefix =>
                          ParseInt(e.rollNumber.digits) < ParseInt(r.digits)]_vars

C25_SetCurrentRace ==
    [][\A r \in ReqIds :
        (reqs[r].op = "setCurrent" /\ reqs[r].pc = "updateById" /\ reqs'[r].pc = "idle")
        => LET id == reqs[r].academicYearId
               flagged == {y \in YearIds : years'[y].isCurrent}
           IN  /\ returned'.result \in {"ok", "CurrentYearConflict"}
               /\ returned'.result = "ok" => id \in flagged
               /\ returned'.result = "CurrentYearConflict"
                    => /\ years' = years
                       /\ \E y \in YearIds \ {id} : years[y].isCurrent
               /\ \A y \in YearIds :
                    (years'[y].isCurrent /\ ~years[y].isCurrent)
                        => y = id /\ returned'.result = "ok"
               /\ (\A o \in ReqIds : reqs'[o].op # "setCurrent")
                    => Cardinality(flagged) = 1]_vars

\* two setCurrent calls for different years overlapped and both have
\* finished: the later update lost the race, the other year is flagged
C25_Witness ==
    /\ returned.op = "setCurrent"
    /\ returned.result = "CurrentYearConflict"
    /\ \A r \in ReqIds : reqs[r].pc = "idle"
    /\ ~years[returned.academicYearId].isCurrent
    /\ Cardinality({y \in YearIds : years[y].isCurrent}) = 1

\* C26: after StudentsService.update has changed a student's classId,
\* sectionId, academicYearId or rollNumber, the snapshot (classId, sectionId,
\* academicYearId, rollNumber) equals the student's ledger entry for the
\* snapshot's academic year.
C26_UpdateKeepsSnapshotInLedger ==
    [][\A r \in ReqIds :
        (/\ reqs[r].op = "students.update" /\ reqs[r].pc = "findByIdAndUpdate"
         /\ reqs'[r].pc = "idle"
         /\ students' # students)
        => LET id == reqs[r].studentId
           IN  \E e \in ledger' :
                  /\ e.studentId = id
                  /\ e.academicYearId = students'[id].academicYearId
                  /\ e.classId = students'[id].classId
                  /\ e.sectionId = students'[id].sectionId
                  /\ e.rollNumber = students'[id].rollNumber]_vars

\* C27: a promote call that passes the current-year check, the next-year
\* check and the existing-enrollment check finds the roll number it carries
\* forward unused in the target year, by any other student's ledger entry and
\* by any other student's snapshot, and its transaction commits.
C27_PromoteAlwaysCommits ==
    [][\A r \in ReqIds :
        /\ (reqs[r].pc = "idle" /\ reqs'[r].pc = "txn" /\ reqs'[r].op = "promote")
           => LET q == reqs'[r]
                  rollNumber == students[q.studentId].rollNumber
              IN  /\ \A e \in ledger :
                        ~(/\ e.studentId # q.studentId
                          /\ e.academicYearId = q.academicYearId
                          /\ e.rollNumber = rollNumber)
                  /\ \A o \in DOMAIN students \ {q.studentId} :
                        ~(/\ students[o].academicYearId = q.academicYearId
                          /\ students[o].rollNumber = rollNumber)
        /\ (reqs[r].op = "promote" /\ reqs[r].pc = "txn" /\ reqs'[r].pc = "idle")
           => returned'.result = "ok"]_vars

\* C28: for every (student, product) at most one Payment record has status
\* 'paid', in every state reached by createOrder, verifyPayment and
\* payment.captured webhook events in any order and interleaving.
C28_AtMostOnePaid ==
    \A i \in 1..Len(payments) : \A j \in 1..Len(payments) :
        (/\ payments[i].studentId = payments[j].studentId
         /\ payments[i].productId = payments[j].productId
         /\ payments[i].status = "paid" /\ payments[j].status = "paid")
        => i = j

\* C29: a Payment with status 'paid' keeps that status in every step, and a
\* verifyPayment for an order whose record is paid when the call returns
\* has returned the paid result.
C29_PaidIsFinal ==
    [][/\ \A i \in 1..Len(payments) :
            payments[i].status = "paid" => payments'[i].status = "paid"
       /\ \A r \in ReqIds :
            (/\ payReqs[r].op = "verifyPayment" /\ payReqs[r].pc \in {"markFailed", "save"}
             /\ payReqs'[r].pc = "idle"
             /\ payments[payReqs[r].rec].status = "paid")
            => returned'.result = "paid"]_vars

\* C30: once 5 incorrect codes have been answered for the identifier, no
\* check or verify accepts a code, the correct one included, before the
\* 5-minute lockout has elapsed, whatever was sent or resent in between.
C30_LockoutHolds ==
    [][\A r \in ReqIds :
        (/\ otpReqs[r].pc = "idle"
         /\ \/ otpReqs'[r].pc = "deleteUsed"
            \/ /\ otpReqs' = otpReqs /\ calls' = calls + 1
               /\ returned'.op = "check" /\ returned'.result = "ok")
        => ~(/\ wrongCodes.fifthAt # <<>>
             /\ now < wrongCodes.fifthAt[1] + LOCKOUT_MS)]_vars

====
